---- MODULE Spec2Model ----
(***************************************************************************)
(* Contact-record pipeline: the cross-source filler (in-memory and         *)
(* large-dataset variants) and the clean-then-deduplicate stage.           *)
(*                                                                         *)
(* A text value is a sequence of one-character strings; the empty          *)
(* sequence is the empty string.                                           *)
(***************************************************************************)
EXTENDS Integers, Sequences, FiniteSets, TLC

VARIABLES
    prog,            \* which script runs: "mem", "large", "clean", "validate", "norm",
                     \* "run" or "mailchimp"
    pc,              \* position of the running script
    merged_file,     \* output/MergedDatabase.tsv on disk (rows of raw text)
    log_file,        \* output/fill_missing_log.json on disk
    data_files,      \* the auxiliary .tsv files of data_files/, in listdir order
    merged,          \* merged_df (in-memory) or table merged_data (sqlite)
    change_log,      \* the change_log list of main()
    k,               \* index of the auxiliary file being processed
    missing_indices, \* fill_from_source: indices of the rows with missing data
    cur,             \* loop cursor inside the current pass
    orig,            \* history: the target rows as they were before the run
    writes,          \* history: every cell assignment performed, in order
    df,              \* clean_contacts, validate_fields: the dataframe read;
                     \* merge_contacts_kindaworks: mailchimp_df
    merged_rows,     \* deduplicate_contacts: merged_rows
    deduped_df,      \* clean_contacts: the value deduplicate_contacts returned
    grouping,        \* history: the sort order and the groups deduplicate_contacts formed
    raised,          \* the exception that ended the script, or "none"
    unreadable,      \* the files that are missing or cannot be parsed
    errors,          \* validate_fields: the errors list of main()
    report_file,     \* output/validation_errors.json on disk
    exit_code,       \* validate_fields: the exit status of the script, or "none"
    callee,          \* the function applied to args
    args,            \* the arguments of a function call
    result,          \* the values the calls returned, in order
    run_pc,          \* run.py: position of the pipeline runner
    step,            \* run.py: the loop index i of main()
    started,         \* run.py: the scripts handed to subprocess.run, in order
    returncode,      \* run.py: how the last subprocess.run ended
    run_exit,        \* run.py: the exit status of the runner, or "none"
    missing_scripts  \* the scripts of the pipeline that do not exist

vars == <<prog, pc, merged_file, log_file, data_files, merged, change_log, k,
          missing_indices, cur, orig, writes, df, merged_rows, deduped_df, grouping,
          raised, unreadable, errors, report_file, exit_code, callee, args, result,
          run_pc, step, started, returncode, run_exit, missing_scripts>>

runVars == <<run_pc, step, started, returncode, run_exit, missing_scripts>>

fillVars == <<merged_file, log_file, data_files, merged, change_log, k,
              missing_indices, cur, orig, writes>>

auxVars == <<unreadable, errors, report_file, exit_code, callee, args, result, runVars>>

cleanVars == <<df, merged_rows, deduped_df, grouping>>

-----------------------------------------------------------------------------
(* Text helpers *)

Uppers == <<"A","B","C","D","E","F","G","H","I","J","K","L","M",
            "N","O","P","Q","R","S","T","U","V","W","X","Y","Z">>
Lowers == <<"a","b","c","d","e","f","g","h","i","j","k","l","m",
            "n","o","p","q","r","s","t","u","v","w","x","y","z">>
Digits == {"0","1","2","3","4","5","6","7","8","9"}

\* code-point order of the characters used (ASCII)
AsciiOrder == <<"\t", " ", "-", ".">> \o <<"0","1","2","3","4","5","6","7","8","9">>
              \o <<"@">> \o Uppers \o Lowers

Chars == {AsciiOrder[n] : n \in 1..Len(AsciiOrder)}

IndexIn(c, seq) == CHOOSE n \in 1..Len(seq) : seq[n] = c
IsUpper(c) == \E n \in 1..Len(Uppers) : Uppers[n] = c
IsLower(c) == \E n \in 1..Len(Lowers) : Lowers[n] = c
IsSpace(c) == c \in {" ", "\t"}
IsDigit(c) == c \in Digits

\* the case mappings of the characters, as tables
LowerTable == [c \in Chars |-> IF IsUpper(c) THEN Lowers[IndexIn(c, Uppers)] ELSE c]
UpperTable == [c \in Chars |-> IF IsLower(c) THEN Uppers[IndexIn(c, Lowers)] ELSE c]

LowerChar(c) == LowerTable[c]
UpperChar(c) == UpperTable[c]

\* str.lower()
StrLower(s) == [n \in 1..Len(s) |-> LowerChar(s[n])]

RECURSIVE LStrip(_)
LStrip(s) == IF s # <<>> /\ IsSpace(Head(s)) THEN LStrip(Tail(s)) ELSE s

RECURSIVE RStrip(_)
RStrip(s) ==
    IF s # <<>> /\ IsSpace(s[Len(s)]) THEN RStrip(SubSeq(s, 1, Len(s) - 1)) ELSE s

\* str.strip()
Strip(s) == LStrip(RStrip(s))

\* re.sub(r'\s+', ' ', s)
RECURSIVE CollapseWs(_)
CollapseWs(s) ==
    IF s = <<>> THEN <<>>
    ELSE IF IsSpace(Head(s)) THEN <<" ">> \o CollapseWs(LStrip(s))
    ELSE <<Head(s)>> \o CollapseWs(Tail(s))

\* re.sub(r'\D', '', s)
OnlyDigits(s) == SelectSeq(s, IsDigit)

\* the text 'nan'
NanText == <<"n","a","n">>

\* the absent value (NaN / pd.NA / NaT) of a cell
NA == <<"NA">>

-----------------------------------------------------------------------------
(* fill_missing_contacts.py / fill_missing_contacts_large.py: normalizers *)

normalize_value(val) ==
    IF val = NA \/ val = <<>> THEN <<>> ELSE CollapseWs(Strip(StrLower(val)))

\* digits[-10:]
PhoneKeep == 10

\* faulty variant: the first ten digits are kept
normalize_phone_first(val) ==
    IF val = NA \/ val = <<>> THEN <<>>
    ELSE LET digits == OnlyDigits(val) IN
         IF Len(digits) >= PhoneKeep THEN SubSeq(digits, 1, PhoneKeep) ELSE digits

normalize_phone(val) ==
    IF val = NA \/ val = <<>> THEN <<>>
    ELSE LET digits == OnlyDigits(val) IN
         IF Len(digits) >= PhoneKeep
         THEN SubSeq(digits, Len(digits) - PhoneKeep + 1, Len(digits))
         ELSE digits

\* row: a record of text values; a column argument is a field name or None
None == "None"

get_full_name(row, first_col, last_col, name_col) ==
    LET first == normalize_value(row[first_col])
        last  == normalize_value(row[last_col])
    IN  IF first_col # None /\ last_col # None /\ (first # <<>> \/ last # <<>>)
        THEN Strip(first \o <<" ">> \o last)
        ELSE IF name_col # None THEN normalize_value(row[name_col])
        ELSE <<>>

-----------------------------------------------------------------------------
(* The filler's data *)

\* column names of MergedDatabase.tsv used by the filler (main, lines 153-157)
first_col == "FIRSTNAME"
last_col  == "LASTNAME"
name_col  == "FULLNAME"
email_col == "X_EMAIL2"
phone_col == "MOBILE"

\* the text keys derived per row
KeyCols == {"_name", "_phone", "_email"}

\* raw text values used as inputs
tJo    == <<"J","o">>
tjo    == <<"j","o">>
tLi    == <<"L","i">>
tAl    == <<"A","l">>
tNg    == <<"N","g">>
tJoLi  == <<"J","o"," ","L","i">>
tJoLi2 == <<"J","o"," "," ","L","i">>
eA     == <<"a","@","x">>
eAup   == <<"A","@","x"," ">>
eB     == <<"b","@","y">>
p12    == <<"1","2">>
p1d2   == <<"1","-","2">>
p34    == <<"3","4">>
pLong  == <<"6","1","0","4","1","2","3","4","5","6","7","8">>
pLoc   == <<"0","4","1","2","3","4","5","6","7","8">>

TRow(f, l, n, e, m) ==
    [FIRSTNAME |-> f, LASTNAME |-> l, FULLNAME |-> n, X_EMAIL2 |-> e, MOBILE |-> m]

\* rows a MergedDatabase.tsv may hold (after fillna(''))
TargetPool == {
    TRow(<<>>, <<>>, tJoLi, eA,   <<>>),
    TRow(tJo,  <<>>, <<>>,  <<>>, p12),
    TRow(tJo,  tLi,  <<>>,  eAup, p1d2),
    TRow(<<>>, <<>>, <<>>,  eA,   pLong) }

SRow(f, l, n, e, p) ==
    ("First Name" :> f) @@ ("Last Name" :> l) @@ ("Name" :> n)
    @@ ("Email" :> e) @@ ("Phone" :> p)

SrcCols == {"First Name", "Last Name", "Name", "Email", "Phone"}

\* a row as read from a file having only the columns cols
Project(row, cols) == [c \in SrcCols |-> IF c \in cols THEN row[c] ELSE <<>>]

DataFile(fname, cols, rows) ==
    [fname |-> fname, columns |-> cols,
     rows |-> [n \in 1..Len(rows) |-> Project(rows[n], cols)]]

sJoLi  == SRow(tjo,  tLi,  <<>>,   eAup, p1d2)
sName  == SRow(<<>>, <<>>, tJoLi2, eA,   p34)
sJo    == SRow(tJo,  <<>>, <<>>,   eB,   p12)
sAlLi  == SRow(tAl,  tLi,  <<>>,   eA,   <<>>)
sAlNg  == SRow(tAl,  tNg,  <<>>,   eA,   pLoc)
sBlank == SRow(<<>>, <<>>, <<>>,   <<>>, p12)

AllCols  == SrcCols
FirstOnly == {"First Name", "Email", "Phone"}
NoFirst  == {"Last Name", "Name", "Email", "Phone"}
NoEmPh   == {"First Name", "Last Name", "Name"}

\* the auxiliary files a data_files/ directory may hold
FilePool == {
    DataFile("a.tsv", AllCols, <<sJoLi, sName>>),
    DataFile("b.tsv", AllCols, <<sName, sJoLi, sJo>>),
    DataFile("c.tsv", AllCols, <<sAlLi, sBlank>>),
    DataFile("d.tsv", AllCols, <<sAlNg, sJoLi>>),
    DataFile("e.tsv", NoFirst, <<sName, sJoLi>>),
    DataFile("f.tsv", FirstOnly, <<sAlNg, sJoLi>>),
    DataFile("g.tsv", NoEmPh,  <<sJoLi, sJo>>),
    DataFile("h.tsv", AllCols, <<>>) }

\* number of rows of MergedDatabase.tsv and number of auxiliary files
NumTargets == 2
NumFiles   == 2

Indices(seq) == 1..Len(seq)

\* all orderings of a finite set
Orderings(S) ==
    {f \in [1..Cardinality(S) -> S] : \A a, b \in 1..Cardinality(S) : f[a] = f[b] => a = b}

-----------------------------------------------------------------------------
(* Column discovery in an auxiliary file (main 188-192, chunked 87-91) *)

Col(file, names) == IF names \in file.columns THEN names ELSE None

src_first(file) == Col(file, "First Name")
src_last(file)  == Col(file, "Last Name")
src_name(file)  == Col(file, "Name")
src_email(file) == Col(file, "Email")
src_phone(file) == Col(file, "Phone")

\* faulty variant: 'and' in place of 'or' between the two tests
MissingRequiredColumns_and(file) ==
    /\ ~ \/ (src_first(file) # None /\ src_last(file) # None)
         \/ src_name(file) # None
    /\ (src_email(file) = None /\ src_phone(file) = None)

\* if not any([src_first and src_last, src_name]) or (not src_email and not src_phones)
MissingRequiredColumns(file) ==
    \/ ~ \/ (src_first(file) # None /\ src_last(file) # None)
         \/ src_name(file) # None
    \/ (src_email(file) = None /\ src_phone(file) = None)

\* src_df with the columns _name, _phone, _email added (main 200-202, chunked 99-101)
NormalizeSource(file) ==
    [n \in Indices(file.rows) |->
        LET r == file.rows[n] IN
        r @@ ("_name" :> get_full_name(r, src_first(file), src_last(file), src_name(file)))
          @@ ("_phone" :> IF src_phone(file) # None
                          THEN normalize_phone(r[src_phone(file)]) ELSE <<>>)
          @@ ("_email" :> IF src_email(file) # None
                          THEN normalize_value(r[src_email(file)]) ELSE <<>>)]

\* zip(merged_fields, source_fields) (main 205-220)
FieldPairs(file) ==
    (IF src_first(file) # None THEN << <<first_col, src_first(file)>> >> ELSE <<>>)
    \o (IF src_last(file) # None THEN << <<last_col, src_last(file)>> >> ELSE <<>>)
    \o (IF src_email(file) # None THEN << <<email_col, src_email(file)>> >> ELSE <<>>)
    \o (IF src_phone(file) # None THEN << <<phone_col, src_phone(file)>> >> ELSE <<>>)

\* merged_df with the columns _name, _phone, _email added (main 166-168)
NormalizeMerged(rows) ==
    [n \in Indices(rows) |->
        LET r == rows[n] IN
        r @@ ("_name" :> get_full_name(r, first_col, last_col, name_col))
          @@ ("_phone" :> normalize_phone(r[phone_col]))
          @@ ("_email" :> normalize_value(r[email_col]))]

\* merged_df.drop(columns=['_name', '_phone', '_email'])
DropKeys(rows) ==
    [n \in Indices(rows) |-> [c \in (DOMAIN rows[n]) \ KeyCols |-> rows[n][c]]]


-----------------------------------------------------------------------------
(* fill_missing_contacts.py: fill_from_source *)

IsMissing(v) == v = <<>>

\* faulty variant: .all(axis=1) in place of .any(axis=1)
MissingIndices_all(rows, pairs) ==
    LET mask(n) == \A q \in Indices(pairs) : rows[n][pairs[q][1]] = <<>>
        RECURSIVE scan(_)
        scan(n) == IF n > Len(rows) THEN <<>>
                   ELSE (IF mask(n) THEN <<n - 1>> ELSE <<>>) \o scan(n + 1)
    IN  scan(1)

\* missing_mask / missing_indices (lines 52-53); indices are 0-based
MissingIndices(rows, pairs) ==
    LET mask(n) == \E q \in Indices(pairs) : IsMissing(rows[n][pairs[q][1]])
        RECURSIVE scan(_)
        scan(n) == IF n > Len(rows) THEN <<>>
                   ELSE (IF mask(n) THEN <<n - 1>> ELSE <<>>) \o scan(n + 1)
    IN  scan(1)

\* candidates gathered from the three lookups (lines 61-94); 0-based source indices
Candidates(target, source_df) ==
    LET target_name  == Strip(target["_name"])
        target_email == Strip(target["_email"])
        target_phone == Strip(target["_phone"])
    IN  {c \in 0..(Len(source_df) - 1) :
            LET row == source_df[c + 1] IN
            \/ (Strip(row["_name"]) # <<>> /\ Strip(row["_name"]) = target_name)
            \/ (Strip(row["_email"]) # <<>> /\ Strip(row["_email"]) = target_email)
            \/ (Strip(row["_phone"]) # <<>> /\ Strip(row["_phone"]) = target_phone)}

\* matched_fields of one candidate (lines 101-112)
MatchedFields(target, source_row) ==
    LET target_name  == Strip(target["_name"])
        target_email == Strip(target["_email"])
        target_phone == Strip(target["_phone"])
    IN  (IF target_name # <<>> /\ Strip(source_row["_name"]) = target_name
         THEN << <<"name", target_name>> >> ELSE <<>>)
        \o (IF target_email # <<>> /\ Strip(source_row["_email"]) = target_email
            THEN << <<"email", target_email>> >> ELSE <<>>)
        \o (IF target_phone # <<>> /\ Strip(source_row["_phone"]) = target_phone
            THEN << <<"phone", target_phone>> >> ELSE <<>>)

\* if match_count >= 2 (line 114)
required_matches == 2
\* faulty variant: one matching field is enough
Accepted_one(matched_fields) == Len(matched_fields) >= 1

Accepted(matched_fields) == Len(matched_fields) >= required_matches

\* faulty variant: the emptiness test of the target cell is lost
ShouldFill_any(target_val, s_val) == s_val # <<>> /\ s_val # NanText

\* if pd.isna(target[m_field]) or target[m_field] == '' ... if s_val and str(s_val) != 'nan'
ShouldFill(target_val, s_val) ==
    IsMissing(target_val) /\ s_val # <<>> /\ s_val # NanText

\* the loop over zip(merged_fields, source_fields) for one accepted candidate
\* (lines 119-132); st = [merged, change_log, writes, changed]
RECURSIVE FillFields(_, _, _)
FillFields(st, ctx, pairs) ==
    IF pairs = <<>> THEN st
    ELSE LET m_field == Head(pairs)[1]
             s_val   == ctx.source_row[Head(pairs)[2]]
             next ==
                IF ShouldFill(ctx.target[m_field], s_val)
                THEN [merged |-> [st.merged EXCEPT ![ctx.idx + 1][m_field] = s_val],
                      change_log |-> Append(st.change_log,
                            [row |-> ctx.idx + 1, field |-> m_field,
                             old_value |-> ctx.target[m_field], new_value |-> s_val,
                             source_file |-> ctx.fname, matched_on |-> ctx.match_info]),
                      writes |-> Append(st.writes,
                            [pos |-> ctx.idx + 1, field |-> m_field,
                             before |-> st.merged[ctx.idx + 1][m_field], value |-> s_val,
                             pass |-> ctx.pass, cand |-> ctx.cand]),
                      changed |-> TRUE]
                ELSE st
         IN  FillFields(next, ctx, Tail(pairs))

\* faulty variant: the break is lost
StopAfter_never(changed) == FALSE

\* stop after the first candidate that changed something (lines 134-136)
StopAfter(changed) == changed

\* the loop over the candidates of one target row, in iteration order (lines 97-136)
RECURSIVE TryCandidates(_, _, _, _, _, _)
TryCandidates(st, idx, target, source_df, order, info) ==
    IF order = <<>> THEN st
    ELSE LET candidate_idx  == Head(order)
             source_row     == source_df[candidate_idx + 1]
             matched_fields == MatchedFields(target, source_row)
             ctx == [idx |-> idx, target |-> target, source_row |-> source_row,
                     cand |-> candidate_idx, fname |-> info.fname, pass |-> info.pass,
                     match_info |-> matched_fields]
             after == IF Accepted(matched_fields)
                      THEN FillFields([st EXCEPT !.changed = FALSE], ctx, info.pairs)
                      ELSE [st EXCEPT !.changed = FALSE]
         IN  IF StopAfter(after.changed) THEN after
             ELSE TryCandidates(after, idx, target, source_df, Tail(order), info)

-----------------------------------------------------------------------------
(* fill_missing_contacts.py: main *)

\* main line 145: the dataset the run reads and overwrites
merged_path == "output/MergedDatabase.tsv"

\* faulty variant: every file is taken to be readable
ReadFails_never(path) == FALSE

\* reading a file raises when the file is missing or cannot be parsed
ReadFails(path) == path \in unreadable

\* lines 148-168: read MergedDatabase.tsv and add the key columns
MemLoad ==
    /\ prog = "mem" /\ pc = "load"
    /\ ~ReadFails(merged_path)
    /\ merged' = NormalizeMerged(merged_file)
    /\ change_log' = <<>>
    /\ k' = 1
    /\ pc' = "files"
    /\ UNCHANGED <<prog, merged_file, log_file, data_files, missing_indices, cur,
                   orig, writes, cleanVars, auxVars, raised>>

\* lines 194-197: a file without the identifying columns is skipped
MemSkipFile ==
    /\ prog = "mem" /\ pc = "files" /\ k <= Len(data_files)
    /\ ~ReadFails(data_files[k].fname)
    /\ MissingRequiredColumns(data_files[k])
    /\ k' = k + 1
    /\ UNCHANGED <<prog, pc, merged_file, log_file, data_files, merged, change_log,
                   missing_indices, cur, orig, writes, cleanVars, auxVars, raised>>

\* lines 199-227 and 51-56: start the pass; return at once when no row misses data
MemStartPass ==
    /\ prog = "mem" /\ pc = "files" /\ k <= Len(data_files)
    /\ ~ReadFails(data_files[k].fname)
    /\ ~MissingRequiredColumns(data_files[k])
    /\ LET mi == MissingIndices(merged, FieldPairs(data_files[k])) IN
       IF mi = <<>>
       THEN /\ k' = k + 1
            /\ UNCHANGED <<pc, missing_indices, cur>>
       ELSE /\ missing_indices' = mi
            /\ cur' = 1
            /\ pc' = "pass"
            /\ UNCHANGED k
    /\ UNCHANGED <<prog, merged_file, log_file, data_files, merged, change_log,
                   orig, writes, cleanVars, auxVars, raised>>

\* lines 81-136: one iteration of the loop over missing_indices
MemFillRow ==
    /\ prog = "mem" /\ pc = "pass" /\ cur <= Len(missing_indices)
    /\ LET idx       == missing_indices[cur]
           target    == merged[idx + 1]
           source_df == NormalizeSource(data_files[k])
           info      == [fname |-> data_files[k].fname, pass |-> k,
                         pairs |-> FieldPairs(data_files[k])]
       IN  \E order \in Orderings(Candidates(target, source_df)) :
              LET st == TryCandidates(
                            [merged |-> merged, change_log |-> change_log,
                             writes |-> writes, changed |-> FALSE],
                            idx, target, source_df, order, info)
              IN  /\ merged' = st.merged
                  /\ change_log' = st.change_log
                  /\ writes' = st.writes
    /\ IF cur = Len(missing_indices)
       THEN /\ pc' = "files" /\ k' = k + 1 /\ cur' = 0 /\ missing_indices' = <<>>
       ELSE /\ cur' = cur + 1 /\ UNCHANGED <<pc, k, missing_indices>>
    /\ UNCHANGED <<prog, merged_file, log_file, data_files, orig, cleanVars, auxVars, raised>>

\* lines 230-240: drop the key columns, write the database and the change log
MemSave ==
    /\ prog = "mem" /\ pc = "files" /\ k > Len(data_files)
    /\ merged_file' = DropKeys(merged)
    /\ log_file' = change_log
    /\ pc' = "done"
    /\ UNCHANGED <<prog, data_files, merged, change_log, k, missing_indices, cur,
                   orig, writes, cleanVars, auxVars, raised>>

\* lines 150 and 184: pd.read_csv raises, nothing catches it, main ends before
\* lines 230-240
MemReadError ==
    /\ prog = "mem"
    /\ \/ pc = "load" /\ ReadFails(merged_path)
       \/ pc = "files" /\ k <= Len(data_files) /\ ReadFails(data_files[k].fname)
    /\ raised' = "ReadError"
    /\ pc' = "done"
    /\ UNCHANGED <<prog, merged_file, log_file, data_files, merged, change_log, k,
                   missing_indices, cur, orig, writes, cleanVars, auxVars>>


-----------------------------------------------------------------------------
(* fill_missing_contacts_large.py *)

\* chunk_size = 10000 in the source; scaled down so that a target file of
\* NumTargets rows spans more than one chunk
chunk_size == 1

\* create_temp_database (lines 50-66): rows of table merged_data.  The chunks of
\* read_csv keep the running row index of the file, so chunk.index is the
\* 0-based position of the row in the file.
CreateTempDatabase(rows) ==
    [n \in Indices(rows) |->
        LET r == rows[n]
            chunk_num   == ((n - 1) \div chunk_size) + 1
            chunk_index == n - 1
        IN  r @@ ("_name" :> get_full_name(r, first_col, last_col, name_col))
              @@ ("_phone" :> normalize_phone(r[phone_col]))
              @@ ("_email" :> normalize_value(r[email_col]))
              @@ ("orig_index" :> chunk_index + (chunk_num - 1) * chunk_size)]

\* positions of a table in ascending rowid order that satisfy a test
RowsWhere(table, Test(_)) ==
    SelectSeq([n \in Indices(table) |-> n], LAMBDA n : Test(table[n]))

\* the SELECT of lines 133-141, as the set of rowids it returns
QueryMatches(table, source_name, source_email, source_phone) ==
    {n \in Indices(table) :
        /\ \/ (source_name # <<>> /\ table[n]["_name"] = source_name)
           \/ (source_email # <<>> /\ table[n]["_email"] = source_email)
           \/ (source_phone # <<>> /\ table[n]["_phone"] = source_phone)
        /\ \/ table[n][first_col] = <<>> \/ table[n][last_col] = <<>>
           \/ table[n][email_col] = <<>> \/ table[n][phone_col] = <<>>}

\* lines 148-159 for one fetched row
LargeMatchedFields(match, source_name, source_email, source_phone) ==
    (IF source_name # <<>> /\ match["_name"] = source_name
     THEN << <<"name", source_name>> >> ELSE <<>>)
    \o (IF source_email # <<>> /\ match["_email"] = source_email
        THEN << <<"email", source_email>> >> ELSE <<>>)
    \o (IF source_phone # <<>> /\ match["_phone"] = source_phone
        THEN << <<"phone", source_phone>> >> ELSE <<>>)

\* current_x == '' and src_x and source_row.get(src_x, '') (lines 169, 182, 195, 208)
LargeShouldFill(current, s_val) == current = <<>> /\ s_val # <<>>

\* update_fields / update_params of one fetched row (lines 166-219)
UpdateFields(match, source_row, pairs) ==
    SelectSeq([q \in Indices(pairs) |-> <<pairs[q][1], source_row[pairs[q][2]]>>],
              LAMBDA u : LargeShouldFill(match[u[1]], u[2]))

\* UPDATE merged_data SET ... WHERE orig_index = ? (lines 221-224)
RECURSIVE SetFields(_, _)
SetFields(row, updates) ==
    IF updates = <<>> THEN row
    ELSE SetFields([row EXCEPT ![Head(updates)[1]] = Head(updates)[2]], Tail(updates))

ExecuteUpdate(table, updates, orig_idx) ==
    [n \in Indices(table) |->
        IF table[n]["orig_index"] = orig_idx THEN SetFields(table[n], updates)
        ELSE table[n]]

\* history of the cells an UPDATE assigns
WritesOf(table, updates, orig_idx, pass, cand) ==
    LET hit == RowsWhere(table, LAMBDA r : r["orig_index"] = orig_idx)
        RECURSIVE perRow(_)
        perRow(rs) ==
            IF rs = <<>> THEN <<>>
            ELSE [q \in Indices(updates) |->
                     [pos |-> Head(rs), field |-> updates[q][1],
                      before |-> table[Head(rs)][updates[q][1]],
                      value |-> updates[q][2], pass |-> pass, cand |-> cand]]
                 \o perRow(Tail(rs))
    IN  perRow(hit)

\* the loop over the fetched rows of one source record (lines 143-225);
\* fetched holds the rows as the SELECT returned them
RECURSIVE ProcessMatches(_, _, _, _)
ProcessMatches(st, fetched, source_row, info) ==
    IF fetched = <<>> THEN st
    ELSE LET match    == Head(fetched)
             orig_idx == match["orig_index"]
             matched_fields == LargeMatchedFields(match, info.source_name,
                                                  info.source_email, info.source_phone)
             updates  == UpdateFields(match, source_row, info.pairs)
             next ==
                IF Accepted(matched_fields) /\ updates # <<>>
                THEN [merged |-> ExecuteUpdate(st.merged, updates, orig_idx),
                      change_log |-> st.change_log \o
                          [q \in Indices(updates) |->
                              [row |-> orig_idx + 1, field |-> updates[q][1],
                               old_value |-> <<>>, new_value |-> updates[q][2],
                               source_file |-> info.fname, matched_on |-> matched_fields]],
                      writes |-> st.writes \o
                          WritesOf(st.merged, updates, orig_idx, info.pass, info.cand)]
                ELSE st
         IN  ProcessMatches(next, Tail(fetched), source_row, info)

\* export_updated_database (lines 239-258)
ExportUpdatedDatabase(table) ==
    LET kept == {n \in Indices(table) :
                    \A q \in 1..(n - 1) : table[q]["orig_index"] # table[n]["orig_index"]}
        ordered == CHOOSE f \in [1..Cardinality(kept) -> kept] :
                      \A a, b \in 1..Cardinality(kept) :
                         a < b => table[f[a]]["orig_index"] < table[f[b]]["orig_index"]
    IN  [n \in 1..Cardinality(kept) |->
            [c \in (DOMAIN table[ordered[n]]) \ (KeyCols \cup {"orig_index"}) |->
                table[ordered[n]][c]]]

\* main line 276
LargeLoad ==
    /\ prog = "large" /\ pc = "load"
    /\ ~ReadFails(merged_path)
    /\ merged' = CreateTempDatabase(merged_file)
    /\ change_log' = <<>>
    /\ k' = 1
    /\ pc' = "files"
    /\ UNCHANGED <<prog, merged_file, log_file, data_files, missing_indices, cur,
                   orig, writes, cleanVars, auxVars, raised>>

\* process_source_file_chunked lines 93-96
LargeSkipFile ==
    /\ prog = "large" /\ pc = "files" /\ k <= Len(data_files)
    /\ ~ReadFails(data_files[k].fname)
    /\ MissingRequiredColumns(data_files[k])
    /\ k' = k + 1
    /\ UNCHANGED <<prog, pc, merged_file, log_file, data_files, merged, change_log,
                   missing_indices, cur, orig, writes, cleanVars, auxVars, raised>>

\* process_source_file_chunked lines 98-107: enter the loop over the source records
LargeStartPass ==
    /\ prog = "large" /\ pc = "files" /\ k <= Len(data_files)
    /\ ~ReadFails(data_files[k].fname)
    /\ ~MissingRequiredColumns(data_files[k])
    /\ IF data_files[k].rows = <<>>
       THEN /\ k' = k + 1 /\ UNCHANGED <<pc, cur>>
       ELSE /\ pc' = "pass" /\ cur' = 1 /\ UNCHANGED k
    /\ UNCHANGED <<prog, merged_file, log_file, data_files, merged, change_log,
                   missing_indices, orig, writes, cleanVars, auxVars, raised>>

\* process_source_file_chunked lines 107-225: one source record
LargeSourceRow ==
    /\ prog = "large" /\ pc = "pass" /\ cur <= Len(data_files[k].rows)
    /\ LET source_row   == NormalizeSource(data_files[k])[cur]
           source_name  == Strip(source_row["_name"])
           source_email == Strip(source_row["_email"])
           source_phone == Strip(source_row["_phone"])
           n_conditions == (IF source_name # <<>> THEN 1 ELSE 0)
                           + (IF source_email # <<>> THEN 1 ELSE 0)
                           + (IF source_phone # <<>> THEN 1 ELSE 0)
           info == [fname |-> data_files[k].fname, pass |-> k, cand |-> cur - 1,
                    pairs |-> FieldPairs(data_files[k]), source_name |-> source_name,
                    source_email |-> source_email, source_phone |-> source_phone]
       IN  IF n_conditions < required_matches
           THEN UNCHANGED <<merged, change_log, writes>>
           ELSE \E order \in Orderings(QueryMatches(merged, source_name,
                                                    source_email, source_phone)) :
                  LET fetched == [n \in Indices(order) |-> merged[order[n]]]
                      st == ProcessMatches([merged |-> merged, change_log |-> change_log,
                                            writes |-> writes],
                                           fetched, source_row, info)
                  IN  /\ merged' = st.merged
                      /\ change_log' = st.change_log
                      /\ writes' = st.writes
    /\ IF cur = Len(data_files[k].rows)
       THEN /\ pc' = "files" /\ k' = k + 1 /\ cur' = 0
       ELSE /\ cur' = cur + 1 /\ UNCHANGED <<pc, k>>
    /\ UNCHANGED <<prog, merged_file, log_file, data_files, missing_indices, orig,
                   cleanVars, auxVars, raised>>

\* main lines 293-299
LargeExport ==
    /\ prog = "large" /\ pc = "files" /\ k > Len(data_files)
    /\ merged_file' = ExportUpdatedDatabase(merged)
    /\ log_file' = change_log
    /\ pc' = "done"
    /\ UNCHANGED <<prog, data_files, merged, change_log, k, missing_indices, cur,
                   orig, writes, cleanVars, auxVars, raised>>

\* create_temp_database line 50 and process_source_file_chunked line 84:
\* pd.read_csv raises, nothing catches it, main ends before lines 293-299
LargeReadError ==
    /\ prog = "large"
    /\ \/ pc = "load" /\ ReadFails(merged_path)
       \/ pc = "files" /\ k <= Len(data_files) /\ ReadFails(data_files[k].fname)
    /\ raised' = "ReadError"
    /\ pc' = "done"
    /\ UNCHANGED <<prog, merged_file, log_file, data_files, merged, change_log, k,
                   missing_indices, cur, orig, writes, cleanVars, auxVars>>

-----------------------------------------------------------------------------
(* The filler as a program *)

NoFile == <<"no file">>

\* no pipeline runner is in play
NoRun ==
    /\ run_pc = "none" /\ step = 0 /\ started = <<>> /\ returncode = "none"
    /\ run_exit = "none" /\ missing_scripts = {}

\* nothing of the validator and no function call is in play
NoAux ==
    /\ NoRun
    /\ errors = <<>> /\ report_file = NoFile /\ exit_code = "none"
    /\ callee = "none" /\ args = <<>> /\ result = <<>>

InjectiveSeqs(S, n) == {f \in [1..n -> S] : \A a, b \in 1..n : f[a] = f[b] => a = b}

\* a run of either filler on a target file of rows of `targets` and on
\* auxiliary files of `files`
FillStartFrom(targets, files) ==
    /\ prog \in {"mem", "large"}
    /\ pc = "load"
    /\ merged_file \in [1..NumTargets -> targets]
    /\ log_file = NoFile
    /\ data_files \in InjectiveSeqs(files, NumFiles)
    /\ merged = <<>>
    /\ change_log = <<>>
    /\ k = 0
    /\ missing_indices = <<>>
    /\ cur = 0
    /\ orig = merged_file
    /\ writes = <<>>
    /\ df = <<>>
    /\ merged_rows = <<>>
    /\ deduped_df = <<>>
    /\ grouping = <<>>
    /\ raised = "none"
    /\ NoAux

FillStart == FillStartFrom(TargetPool, FilePool)

\* every file of the run can be read
InitFill == FillStart /\ unreadable = {}

NextFill ==
    \/ MemLoad \/ MemSkipFile \/ MemStartPass \/ MemFillRow \/ MemSave
    \/ LargeLoad \/ LargeSkipFile \/ LargeStartPass \/ LargeSourceRow \/ LargeExport

SpecFill == InitFill /\ [][NextFill]_vars


-----------------------------------------------------------------------------
(* Properties of the filler *)

TargetFields == {first_col, last_col, name_col, email_col, phone_col}

Filling == prog \in {"mem", "large"}
Loaded  == Filling /\ pc \in {"files", "pass", "done"}

\* a key agrees when it is non-empty on both sides and equal
Agree(a, b) == a # <<>> /\ b # <<>> /\ a = b
AgreeCount(target, source_row) ==
    Cardinality({c \in KeyCols : Agree(target[c], source_row[c])})

\* a file with no first+last pair and no full-name column, or with neither an
\* email nor a phone column
LacksIdentifyingColumns(file) ==
    \/ (~({"First Name", "Last Name"} \subseteq file.columns) /\ "Name" \notin file.columns)
    \/ file.columns \cap {"Email", "Phone"} = {}

\* the auxiliary record (pass j, 0-based index c) with its keys
NormalizedPool == [file \in FilePool |-> NormalizeSource(file)]
AuxRow(j, c) == NormalizedPool[data_files[j]][c + 1]

\* the passes that have run to their end
Completed == IF Loaded THEN 1..(k - 1) ELSE {}

WritesTo(n, f) == {q \in Indices(writes) : writes[q].pos = n /\ writes[q].field = f}

\* cell (n, f) as it was when pass j began
EmptyBefore(j, n, f) ==
    orig[n][f] = <<>> /\ \A q \in WritesTo(n, f) : writes[q].pass >= j

\* C1: every target cell that was non-empty before the run keeps its original
\* value through every fill pass of either filler and in the file written at
\* the end, and every cell assignment hits a cell that is empty at that moment.
C1_NeverOverwrites ==
    Filling =>
        /\ \A q \in Indices(writes) : writes[q].before = <<>>
        /\ Loaded =>
              /\ Len(merged) = Len(orig)
              /\ \A n \in Indices(orig) : \A f \in TargetFields :
                    orig[n][f] # <<>> => merged[n][f] = orig[n][f]
        /\ pc = "done" =>
              /\ Len(merged_file) = Len(orig)
              /\ \A n \in Indices(orig) : \A f \in TargetFields :
                    orig[n][f] # <<>> => merged_file[n][f] = orig[n][f]

C1_Witness ==
    /\ prog = "large" /\ pc = "done"
    /\ \E a, b \in Indices(writes) : writes[a].pass = 1 /\ writes[b].pass = 2
    /\ \E n \in Indices(orig) : \E f, g \in TargetFields :
          orig[n][f] # <<>> /\ orig[n][g] = <<>> /\ merged_file[n][g] # <<>>

\* C2: every fill (and every change-log entry) comes from an auxiliary record
\* that agrees with the target record on at least two of the keys name, email,
\* phone; a record agreeing on one key only causes no fill and no entry.
C2_TwoKeysAgree ==
    Filling =>
        /\ Len(change_log) = Len(writes)
        /\ \A q \in Indices(writes) :
              /\ AgreeCount(merged[writes[q].pos], AuxRow(writes[q].pass, writes[q].cand)) >= 2
              /\ change_log[q].source_file = data_files[writes[q].pass].fname
              /\ Len(change_log[q].matched_on) >= 2

\* a processed auxiliary record that agrees with a target on exactly one key and
\* holds a value for one of its empty cells, which stays empty
C2_Witness ==
    /\ prog = "mem" /\ pc = "done" /\ writes # <<>>
    /\ \E j \in Indices(data_files) : \E c \in 0..(Len(data_files[j].rows) - 1) :
       \E n \in Indices(merged) : \E q \in Indices(FieldPairs(data_files[j])) :
          /\ ~LacksIdentifyingColumns(data_files[j])
          /\ AgreeCount(merged[n], AuxRow(j, c)) = 1
          /\ AuxRow(j, c)[FieldPairs(data_files[j])[q][2]] # <<>>
          /\ merged[n][FieldPairs(data_files[j])[q][1]] = <<>>

\* C3: in one pass of fill_from_source all cells filled in one target record
\* come from one auxiliary record, and the pass raises nothing.
C3_SingleCandidate ==
    prog = "mem" =>
        /\ raised = "none"
        /\ \A a, b \in Indices(writes) :
              (writes[a].pass = writes[b].pass /\ writes[a].pos = writes[b].pos)
                  => writes[a].cand = writes[b].cand

\* the cells candidate c would fill in row n at the start of pass j
WouldFill(j, n, c) ==
    {q \in Indices(FieldPairs(data_files[j])) :
        /\ EmptyBefore(j, n, FieldPairs(data_files[j])[q][1])
        /\ AuxRow(j, c)[FieldPairs(data_files[j])[q][2]] # <<>>}

\* the accepted candidates of row n in pass j that hold something to fill
Fillers(j, n) ==
    IF LacksIdentifyingColumns(data_files[j]) THEN {}
    ELSE {c \in 0..(Len(data_files[j].rows) - 1) :
             /\ AgreeCount(merged[n], AuxRow(j, c)) >= 2
             /\ WouldFill(j, n, c) # {}}

\* a target with two accepted candidates that each hold a value to fill, after
\* the pass filled two of its cells
C3_Witness ==
    /\ prog = "mem" /\ pc = "done"
    /\ \E n \in Indices(merged) :
          /\ Cardinality(Fillers(1, n)) >= 2
          /\ \E a, b \in Indices(writes) :
                /\ a # b /\ writes[a].pass = 1 /\ writes[b].pass = 1
                /\ writes[a].pos = n /\ writes[b].pos = n


\* C4 (as claimed): the change log and the cell assignments correspond one to
\* one: entry q names the cell (row, field) assigned by assignment q, the cell
\* was empty before and holds new_value afterwards, no cell changes without an
\* entry and no (row, field) pair is logged twice.
C4_LogMatchesChanges ==
    Loaded =>
        /\ Len(change_log) = Len(writes)
        /\ \A q \in Indices(change_log) :
              /\ change_log[q].row = writes[q].pos
              /\ change_log[q].field = writes[q].field
              /\ change_log[q].new_value = writes[q].value
              /\ writes[q].before = <<>>
              /\ change_log[q].row \in Indices(merged)
              /\ merged[change_log[q].row][change_log[q].field] = change_log[q].new_value
        /\ \A a, b \in Indices(change_log) :
              (change_log[a].row = change_log[b].row
                  /\ change_log[a].field = change_log[b].field) => a = b
        /\ \A n \in Indices(orig) : \A f \in TargetFields :
              merged[n][f] # orig[n][f] =>
                  \E q \in Indices(change_log) :
                      change_log[q].row = n /\ change_log[q].field = f

\* C5 (as claimed): a cell is never filled twice, and a cell still empty when
\* pass j begins is filled by pass j whenever file j holds an accepted match
\* with a non-empty value for it.
C5_EveryAcceptedValueFills ==
    prog = "mem" =>
        /\ \A a, b \in Indices(writes) :
              (writes[a].pos = writes[b].pos /\ writes[a].field = writes[b].field) => a = b
        /\ \A j \in Completed : \A n \in Indices(merged) :
           \A c \in 0..(Len(data_files[j].rows) - 1) : \A q \in WouldFill(j, n, c) :
              (~LacksIdentifyingColumns(data_files[j])
                  /\ AgreeCount(merged[n], AuxRow(j, c)) >= 2)
              => \E w \in WritesTo(n, FieldPairs(data_files[j])[q][1]) : writes[w].pass = j

\* the fields pass j assigned in row n
FilledIn(j, n) ==
    {writes[q].field : q \in {w \in Indices(writes) : writes[w].pass = j /\ writes[w].pos = n}}

\* C5 (amended): a cell is never filled twice, and in pass j a record with an
\* accepted match that holds a value for one of its empty mapped cells gets
\* exactly the cells that one such match can fill; other records get nothing.
C5_OneAcceptedMatchFills ==
    prog = "mem" =>
        /\ \A a, b \in Indices(writes) :
              (writes[a].pos = writes[b].pos /\ writes[a].field = writes[b].field) => a = b
        /\ \A j \in Completed : \A n \in Indices(merged) :
              IF Fillers(j, n) = {} THEN FilledIn(j, n) = {}
              ELSE \E c \in Fillers(j, n) :
                      FilledIn(j, n) =
                          {FieldPairs(data_files[j])[q][1] : q \in WouldFill(j, n, c)}

\* a later pass fills a cell an earlier pass left empty, and an earlier pass
\* left a cell empty for which another accepted match held a value
C5_Witness ==
    /\ prog = "mem" /\ pc = "done"
    /\ \E n \in Indices(merged) :
          /\ FilledIn(1, n) # {} /\ FilledIn(2, n) # {}
          /\ \E c \in Fillers(1, n) :
                {FieldPairs(data_files[1])[q][1] : q \in WouldFill(1, n, c)} # FilledIn(1, n)

\* C6: an auxiliary file without the identifying columns causes no fill and no
\* change-log entry and is never the file of a running pass; nothing is raised,
\* the loop over the files always has a next step until the run is done, and
\* then every file has been passed and the database and the change log are
\* written.
C6_SkipContinues ==
    Filling =>
        /\ raised = "none"
        /\ pc \in {"load", "files", "pass", "done"}
        /\ pc = "files" => k \in 1..(Len(data_files) + 1)
        /\ pc = "pass" =>
              /\ k \in Indices(data_files)
              /\ ~LacksIdentifyingColumns(data_files[k])
              /\ cur >= 1
              /\ cur <= (IF prog = "mem" THEN Len(missing_indices)
                                         ELSE Len(data_files[k].rows))
        /\ \A j \in Indices(data_files) :
              LacksIdentifyingColumns(data_files[j]) =>
                  /\ \A q \in Indices(writes) : writes[q].pass # j
                  /\ \A q \in Indices(change_log) :
                        change_log[q].source_file # data_files[j].fname
        /\ pc = "done" =>
              /\ k = Len(data_files) + 1
              /\ log_file = change_log
              /\ Len(merged_file) = Len(merged)
              /\ \A n \in Indices(merged) : \A f \in TargetFields :
                    merged_file[n][f] = merged[n][f]

\* the first file lacks the name columns although one of its records agrees
\* with a target on two keys and holds a value for an empty cell; the second
\* file filled a cell and the outputs are written
C6_Witness ==
    /\ Filling /\ pc = "done"
    /\ LacksIdentifyingColumns(data_files[1])
    /\ \E n \in Indices(merged) : \E c \in 0..(Len(data_files[1].rows) - 1) :
          /\ AgreeCount(merged[n], AuxRow(1, c)) >= 2
          /\ WouldFill(1, n, c) # {}
    /\ \E q \in Indices(writes) : writes[q].pass = 2
    /\ log_file # <<>> /\ log_file = change_log


-----------------------------------------------------------------------------
(* clean_contacts.py: the data *)

\* str(x) of a cell: the absent value reads 'nan'
AsText(v) == IF v = NA THEN NanText ELSE v

\* position of a character in code-point order
OrdTable == [c \in Chars |-> IndexIn(c, AsciiOrder)]

\* a < b for texts, as Python compares strings
RECURSIVE StrLess(_, _)
StrLess(a, b) ==
    IF b = <<>> THEN FALSE
    ELSE IF a = <<>> THEN TRUE
    ELSE IF Head(a) # Head(b) THEN OrdTable[Head(a)] < OrdTable[Head(b)]
    ELSE StrLess(Tail(a), Tail(b))

IsLetter(c) == IsUpper(c) \/ IsLower(c)

\* str.title()
StrTitle(s) ==
    [n \in 1..Len(s) |->
        IF n > 1 /\ IsLetter(s[n - 1]) THEN LowerChar(s[n]) ELSE UpperChar(s[n])]

\* re.match(r"[^@]+@[^@]+\.[^@]+", x): the match is anchored at the start only
EmailMatch(x) ==
    \E at \in 2..Len(x) :
        /\ x[at] = "@"
        /\ \A n \in 1..(at - 1) : x[n] # "@"
        /\ \E dot \in (at + 2)..(Len(x) - 1) :
              /\ x[dot] = "."
              /\ \A n \in (at + 1)..(dot + 1) : x[n] # "@"

CleanCols == {"EMAIL", "FULLNAME", "MOBILE", "LAST_UPDATED"}

CRow(e, n, m, u) == [EMAIL |-> e, FULLNAME |-> n, MOBILE |-> m, LAST_UPDATED |-> u]

eAx   == <<"A","@","x",".","c">>
eax   == <<"a","@","x",".","c"," ">>
eby   == <<"b","@","y",".","c">>
eBad  == <<"b","a","d">>
eBAD  == <<"B","A","D">>
tJOLI == <<"J","O"," ","L","I">>
d1    == <<"1">>
d2    == <<"2">>
d3    == <<"3">>

\* rows the input .tsv of clean_contacts may hold
RecordPool == {
    CRow(eAx,  NA,    NA,  d2),
    CRow(eax,  tJoLi, p12, d1),
    CRow(NA,   NA,    NA,  NA),
    CRow(NA,   NA,    NA,  d3),
    CRow(eBad, tAl,   p34, d3),
    CRow(eBAD, tJoLi, p12, d2),
    CRow(NA,   tJOLI, p12, d2),
    CRow(eby,  tJo,   NA,  d1) }

\* the column sets the input may have
ColumnSets == {
    CleanCols,
    CleanCols \ {"LAST_UPDATED"},
    CleanCols \ {"EMAIL"},
    CleanCols \ {"MOBILE"},
    {"EMAIL", "LAST_UPDATED"} }

\* number of rows of the input
NumRecords == 3

Frame(cols, rows) ==
    [columns |-> cols,
     rows |-> [n \in Indices(rows) |-> [c \in cols |-> rows[n][c]]]]

-----------------------------------------------------------------------------
(* clean_contacts.py: clean_fields *)

\* lines 106-107 for one cell
CleanEmail(v) ==
    LET x == StrLower(Strip(AsText(v))) IN IF EmailMatch(x) THEN x ELSE NA

\* line 119 for one cell
CleanName(v) == Strip(StrTitle(AsText(v)))

\* line 151: pd.to_datetime(errors="coerce"); a date is kept as its rank
CleanDate(v) == v

IsEmailCol(c) == c \in {"EMAIL"}
IsPhoneCol(c) == c \in {}
IsNameCol(c)  == c \in {"FULLNAME"}

clean_fields(frame) ==
    [frame EXCEPT !.rows =
        [n \in Indices(frame.rows) |->
            [c \in frame.columns |->
                LET v == frame.rows[n][c] IN
                IF IsEmailCol(c) THEN CleanEmail(v)
                ELSE IF IsPhoneCol(c) THEN OnlyDigits(Strip(AsText(v)))
                ELSE IF IsNameCol(c) THEN CleanName(v)
                ELSE IF c = "LAST_UPDATED" THEN CleanDate(v)
                ELSE v]]]

-----------------------------------------------------------------------------
(* clean_contacts.py: deduplicate_contacts *)

\* fillna("")
FillNa(v) == IF v = NA THEN <<>> ELSE v

\* lines 164-177 for one row
DedupKey(cols, row) ==
    LET email_key == IF "EMAIL" \in cols THEN StrLower(FillNa(row["EMAIL"])) ELSE <<>>
    IN  IF ("FULLNAME" \in cols \/ "MOBILE" \in cols) /\ email_key = <<>>
        THEN StrLower(FillNa(row["FULLNAME"])) \o <<"-">> \o FillNa(row["MOBILE"])
        ELSE email_key

\* the exception lines 172-179 raise, or "none"
KeyStepError(cols) ==
    IF "FULLNAME" \in cols \/ "MOBILE" \in cols
    THEN IF ~({"FULLNAME", "MOBILE"} \subseteq cols) THEN "KeyError"
         ELSE IF "EMAIL" \notin cols THEN "NameError"
         ELSE "none"
    ELSE "none"

\* row x sorts strictly before row y under sort_values(ascending=False), NaT last
SortsBefore(x, y) ==
    /\ x["LAST_UPDATED"] # NA
    /\ \/ y["LAST_UPDATED"] = NA
       \/ StrLess(y["LAST_UPDATED"], x["LAST_UPDATED"])

\* lines 182-184: the row orders sort_values may produce (the default sort
\* kind is not stable, so rows with equal dates come in any order)
SortOrders(cols, rows) ==
    IF "LAST_UPDATED" \in cols
    THEN {f \in Orderings(Indices(rows)) :
             \A a, b \in Indices(rows) : a < b => ~SortsBefore(rows[f[b]], rows[f[a]])}
    ELSE {[n \in Indices(rows) |-> n]}

\* df.groupby("DEDUP_KEY"): the keys in ascending order
GroupKeys(keys) ==
    LET K == {keys[n] : n \in Indices(keys)}
    IN  CHOOSE f \in [1..Cardinality(K) -> K] :
            \A a, b \in 1..Cardinality(K) : a < b => StrLess(f[a], f[b])

\* line 206
Available(v) ==
    v # NA /\ v \notin {<<>>, NanText, <<"N","o","n","e">>, <<"N","a","N">>}

\* lines 212-221
BestValue(available_values) ==
    IF available_values = <<>> THEN NA
    ELSE IF Len(available_values) = 1 THEN available_values[1]
    ELSE available_values[
            CHOOSE a \in Indices(available_values) :
                \A b \in Indices(available_values) :
                    /\ Len(available_values[b]) <= Len(available_values[a])
                    /\ b < a => Len(available_values[b]) < Len(available_values[a])]

\* lines 195-223 for one group; group holds the rows in sorted order
MergeGroup(cols, group) ==
    [c \in cols |->
        BestValue(SelectSeq([n \in Indices(group) |-> group[n][c]], Available))]

\* line 225: pd.DataFrame(merged_rows).drop(columns=["DEDUP_KEY"])
DropDedupKey(rows) ==
    LET frame_cols == UNION {DOMAIN rows[n] : n \in Indices(rows)} IN
    IF "DEDUP_KEY" \in frame_cols
    THEN [exc |-> "none",
          value |-> [n \in Indices(rows) |->
                        [c \in (DOMAIN rows[n]) \ {"DEDUP_KEY"} |-> rows[n][c]]]]
    ELSE [exc |-> "KeyError", value |-> <<>>]

\* the value no assignment has produced
NoValue == <<"no value">>

\* line 249
CleanFields ==
    /\ prog = "clean" /\ pc = "clean"
    /\ df' = clean_fields(df)
    /\ pc' = "dedup"
    /\ UNCHANGED <<prog, fillVars, auxVars, merged_rows, deduped_df, grouping, raised>>

\* line 250: the call of deduplicate_contacts
Deduplicate ==
    /\ prog = "clean" /\ pc = "dedup"
    /\ IF KeyStepError(df.columns) # "none"
       THEN /\ raised' = KeyStepError(df.columns)
            /\ UNCHANGED <<merged_rows, deduped_df, grouping>>
       ELSE \E order \in SortOrders(df.columns, df.rows) :
               LET sorted == [n \in Indices(order) |-> df.rows[order[n]]]
                   keys   == [n \in Indices(sorted) |-> DedupKey(df.columns, sorted[n])]
                   gkeys  == GroupKeys(keys)
                   member(g) == SelectSeq([n \in Indices(sorted) |-> n],
                                          LAMBDA n : keys[n] = gkeys[g])
                   rows   == [g \in Indices(gkeys) |->
                                 MergeGroup(df.columns,
                                     [n \in Indices(member(g)) |-> sorted[member(g)[n]]])]
                   ret    == DropDedupKey(rows)
               IN  /\ merged_rows' = rows
                   /\ grouping' = [order |-> order, keys |-> gkeys,
                                   groups |-> [g \in Indices(gkeys) |->
                                       [n \in Indices(member(g)) |-> order[member(g)[n]]]]]
                   /\ raised' = ret.exc
                   /\ deduped_df' = IF ret.exc = "none" THEN ret.value ELSE deduped_df
    /\ pc' = "done"
    /\ UNCHANGED <<prog, fillVars, auxVars, df>>

InitClean ==
    /\ prog = "clean"
    /\ pc \in {"clean", "dedup"}
    /\ \E cols \in ColumnSets : \E rows \in [1..NumRecords -> RecordPool] :
          df = Frame(cols, rows)
    /\ orig = df.rows
    /\ merged_rows = <<>>
    /\ deduped_df = NoValue
    /\ grouping = <<>>
    /\ raised = "none"
    /\ merged_file = <<>> /\ log_file = NoFile /\ data_files = <<>> /\ merged = <<>>
    /\ change_log = <<>> /\ k = 0 /\ missing_indices = <<>> /\ cur = 0 /\ writes = <<>>
    /\ NoAux /\ unreadable = {}

NextClean == CleanFields \/ Deduplicate

SpecClean == InitClean /\ [][NextClean]_vars


-----------------------------------------------------------------------------
(* Properties of deduplicate_contacts *)

Deduped == prog = "clean" /\ pc = "done"

\* a cell of a row, empty when the column is absent or the value is absent
Cell(row, c) == IF c \in DOMAIN row /\ row[c] # NA THEN row[c] ELSE <<>>

\* the merge key: the lowercased email when there is one, otherwise the
\* lowercased name, "-" and the phone (empty without name and phone columns)
MergeKey(row) ==
    IF Cell(row, "EMAIL") # <<>> THEN StrLower(Cell(row, "EMAIL"))
    ELSE IF "FULLNAME" \notin DOMAIN row /\ "MOBILE" \notin DOMAIN row THEN <<>>
    ELSE StrLower(Cell(row, "FULLNAME")) \o <<"-">> \o Cell(row, "MOBILE")

\* a record without email, name and phone
BlankKeyed(row) ==
    Cell(row, "EMAIL") = <<>> /\ Cell(row, "FULLNAME") = <<>> /\ Cell(row, "MOBILE") = <<>>

\* the groups (of input row numbers) that hold input row n
GroupsOf(n) ==
    IF grouping = <<>> THEN {}
    ELSE {g \in Indices(grouping.groups) :
             \E m \in Indices(grouping.groups[g]) : grouping.groups[g][m] = n}

\* place of input row n in the recency-sorted input
PlaceOf(n) == CHOOSE m \in Indices(grouping.order) : grouping.order[m] = n

\* C7 (as claimed): deduplicate_contacts returns one record per distinct merge
\* key of its input, and every input record belongs to the group of exactly one
\* output record.
C7_OneRecordPerKey ==
    Deduped =>
        /\ raised = "none"
        /\ deduped_df # NoValue
        /\ Len(deduped_df) = Cardinality({MergeKey(df.rows[n]) : n \in Indices(df.rows)})
        /\ Len(grouping.groups) = Len(deduped_df)
        /\ \A n \in Indices(df.rows) : Cardinality(GroupsOf(n)) = 1

\* C8 (as claimed): two records whose emails are equal after trimming and
\* lowercasing get the same merge key from the clean step and lie in the same
\* single record of the output of clean-then-deduplicate.
C8_SameEmailSameRecord ==
    (Deduped /\ "EMAIL" \in df.columns /\ df = clean_fields(Frame(df.columns, orig))) =>
        \A a, b \in Indices(orig) :
            (/\ orig[a]["EMAIL"] # NA /\ orig[b]["EMAIL"] # NA
             /\ StrLower(Strip(orig[a]["EMAIL"])) = StrLower(Strip(orig[b]["EMAIL"])))
            => /\ MergeKey(df.rows[a]) = MergeKey(df.rows[b])
               /\ raised = "none"
               /\ deduped_df # NoValue
               /\ GroupsOf(a) = GroupsOf(b) /\ Cardinality(GroupsOf(a)) = 1

\* C9 (as claimed): a record with an empty merge key is never merged with
\* another record; n such records yield n records.
C9_BlankKeysNotMerged ==
    (Deduped /\ grouping # <<>>) =>
        /\ \A g \in Indices(grouping.groups) :
              Len(grouping.groups[g]) > 1 =>
                  \A m \in Indices(grouping.groups[g]) :
                      ~BlankKeyed(df.rows[grouping.groups[g][m]])
        /\ Len(merged_rows) >=
              Cardinality({n \in Indices(df.rows) : BlankKeyed(df.rows[n])})

\* C10 (as claimed): the rows come in key-encounter order: group g1 precedes
\* group g2 exactly when the first record of g1 precedes the first record of g2
\* in the recency-sorted input.
C10_KeyEncounterOrder ==
    (Deduped /\ grouping # <<>>) =>
        \A g1, g2 \in Indices(grouping.groups) :
            g1 < g2 <=> PlaceOf(grouping.groups[g1][1]) < PlaceOf(grouping.groups[g2][1])


\* a non-empty value of a cell
NonEmpty(v) == v # NA /\ v # <<>>

\* the non-empty values of column c in group g, in sort order
GroupValues(g, c) ==
    SelectSeq([m \in Indices(grouping.groups[g]) |-> df.rows[grouping.groups[g][m]][c]],
              NonEmpty)

\* v is the first of the longest values of vals
FirstLongest(v, vals) ==
    \E a \in Indices(vals) :
        /\ vals[a] = v
        /\ \A b \in Indices(vals) :
              /\ Len(vals[b]) <= Len(v)
              /\ b < a => Len(vals[b]) < Len(v)

\* the rows built by lines 187-223 hold, for every group and column with a
\* non-empty value, the first of the longest non-empty values of the group
MergedRowsMostComplete ==
    (Deduped /\ grouping # <<>>) =>
        \A g \in Indices(grouping.groups) : \A c \in df.columns :
            GroupValues(g, c) # <<>> => FirstLongest(merged_rows[g][c], GroupValues(g, c))

\* C11 (as claimed): for every group and every column with a non-empty value in
\* the group, the output value is the first, in sort order, of the group's
\* non-empty values of maximal length.
C11_MostCompleteValue ==
    (Deduped /\ grouping # <<>>) =>
        /\ raised = "none"
        /\ deduped_df # NoValue
        /\ \A g \in Indices(grouping.groups) : \A c \in df.columns :
              GroupValues(g, c) # <<>> => FirstLongest(deduped_df[g][c], GroupValues(g, c))


\* the frame handed to deduplicate_contacts is clean_fields of the input read
Cleaned == Deduped /\ df = clean_fields(Frame(df.columns, orig))

\* column c is absent in every input record of group g
AbsentInGroup(g, c) ==
    \A m \in Indices(grouping.groups[g]) : ~NonEmpty(orig[grouping.groups[g][m]][c])

\* C12 (as claimed): after clean_fields and deduplicate_contacts, a name, email
\* or phone that is absent in every record of a group is the no-value marker in
\* the merged record, never a text such as "nan", "Nan" or "None".
C12_AbsentStaysAbsent ==
    (Cleaned /\ grouping # <<>>) =>
        \A g \in Indices(grouping.groups) :
        \A c \in df.columns \cap {"EMAIL", "FULLNAME", "MOBILE"} :
            AbsentInGroup(g, c) => merged_rows[g][c] = NA


\* the keys deduplicate_contacts derives from the rows of a frame are pairwise
\* distinct, so that a further call merges nothing
KeysDistinct(cols, rows) ==
    \A a, b \in Indices(rows) :
        DedupKey(cols, rows[a]) = DedupKey(cols, rows[b]) => a = b

\* the keys re-derived from the rows built by lines 187-223 are pairwise distinct
MergedRowsKeysDistinct ==
    (Deduped /\ grouping # <<>>) => KeysDistinct(df.columns, merged_rows)

\* C13 (as claimed): deduplicate_contacts applied to its own result returns as
\* many records as the result has: the call returns, and the keys re-derived
\* from the returned records are pairwise distinct.
C13_IdempotentCardinality ==
    (Deduped /\ grouping # <<>>) =>
        /\ raised = "none"
        /\ deduped_df # NoValue
        /\ KeysDistinct(df.columns, deduped_df)


-----------------------------------------------------------------------------
(* validate_fields.py and utils/validators.py: the validity tests *)

\* validate_email
validate_email(email) ==
    IF email = NA \/ email = <<>> THEN FALSE ELSE EmailMatch(Strip(email))

\* 7 <= len(digits) <= 15
MinPhoneDigits == 7
MaxPhoneDigits == 15

\* validate_phone
validate_phone(phone) ==
    IF phone = NA \/ phone = <<>> THEN TRUE
    ELSE LET digits == OnlyDigits(phone)
         IN  MinPhoneDigits <= Len(digits) /\ Len(digits) <= MaxPhoneDigits

\* len(re.sub(r"\D", "", phone)) >= 8
MinValidPhoneDigits == 8

\* utils.validators.is_valid_phone, for a text argument
is_valid_phone(phone) == Len(OnlyDigits(phone)) >= MinValidPhoneDigits

-----------------------------------------------------------------------------
(* The normalizers and validity tests applied to values *)

\* pieces of text the argument values are made of
TextPieces == {
    <<>>, <<" ">>, <<"\t", " ">>, <<"J","o">>, <<"5">>, <<"0","4">>,
    <<"1","2","3","4","5","6","7">>, <<"-">>, <<"@","x",".","c">> }

\* number of pieces in an argument value
MaxPieces == 3

RECURSIVE Concat(_)
Concat(ps) == IF ps = <<>> THEN <<>> ELSE Head(ps) \o Concat(Tail(ps))

TextInputs == {Concat(ps) : ps \in [1..MaxPieces -> TextPieces]} \cup {NA}

\* rows handed to get_full_name, and its column arguments
NameRows ==
    {[FIRSTNAME |-> f, LASTNAME |-> l, FULLNAME |-> n] :
        f \in {<<>>, <<" ">>, <<" ","J","o"," ">>},
        l \in {<<>>, <<"L","i">>},
        n \in {<<>>, <<"J","o"," "," ","L","I">>, <<"A","l">>}}

NameArgs ==
    {<<row, f, l, n>> : row \in NameRows, f \in {first_col, None},
                        l \in {last_col, None}, n \in {name_col, None}}

\* number of times a function is applied, the later times to its own result
MaxCalls == 2

\* the argument of the next call of a one-argument function
NextArg == IF result = <<>> THEN args[1] ELSE result[Len(result)]

CanCall(f, arity) ==
    /\ prog = "norm" /\ raised = "none"
    /\ Len(args) = arity
    /\ callee \in {"none", f}
    /\ Len(result) < (IF arity = 1 /\ f \in {"normalize_phone", "normalize_value"}
                      THEN MaxCalls ELSE 1)

Returns(f, value) ==
    /\ callee' = f
    /\ result' = Append(result, value)
    /\ UNCHANGED <<prog, pc, fillVars, cleanVars, raised, unreadable, errors,
                   report_file, exit_code, args, runVars>>

CallNormalizePhone ==
    CanCall("normalize_phone", 1) /\ Returns("normalize_phone", normalize_phone(NextArg))

CallNormalizeValue ==
    CanCall("normalize_value", 1) /\ Returns("normalize_value", normalize_value(NextArg))

\* clean_fields on a frame of one EMAIL cell
CallCleanFields ==
    /\ CanCall("clean_fields", 1)
    /\ Returns("clean_fields",
               clean_fields(Frame({"EMAIL"}, <<[EMAIL |-> args[1]]>>)).rows[1]["EMAIL"])

CallGetFullName ==
    /\ CanCall("get_full_name", 4)
    /\ Returns("get_full_name", get_full_name(args[1], args[2], args[3], args[4]))

\* str() of a truth value
Bool(b) == IF b THEN <<"T","r","u","e">> ELSE <<"F","a","l","s","e">>

CallValidatePhone ==
    CanCall("validate_phone", 1)
        /\ Returns("validate_phone", Bool(validate_phone(args[1])))

\* re.sub raises TypeError for an argument that is not a text
CallIsValidPhone ==
    /\ CanCall("is_valid_phone", 1)
    /\ IF args[1] = NA
       THEN /\ raised' = "TypeError" /\ callee' = "is_valid_phone"
            /\ UNCHANGED <<prog, pc, fillVars, cleanVars, unreadable, errors,
                           report_file, exit_code, args, result, runVars>>
       ELSE Returns("is_valid_phone", Bool(is_valid_phone(args[1])))

InitNorm ==
    /\ prog = "norm" /\ pc = "call"
    /\ args \in {<<v>> : v \in TextInputs} \cup NameArgs
    /\ callee = "none" /\ result = <<>>
    /\ unreadable = {} /\ errors = <<>> /\ report_file = NoFile /\ exit_code = "none"
    /\ raised = "none" /\ NoRun
    /\ df = <<>> /\ merged_rows = <<>> /\ deduped_df = <<>> /\ grouping = <<>>
    /\ merged_file = <<>> /\ log_file = NoFile /\ data_files = <<>> /\ merged = <<>>
    /\ change_log = <<>> /\ k = 0 /\ missing_indices = <<>> /\ cur = 0
    /\ orig = <<>> /\ writes = <<>>

NextNorm ==
    \/ CallNormalizePhone \/ CallNormalizeValue \/ CallCleanFields
    \/ CallGetFullName \/ CallValidatePhone \/ CallIsValidPhone

SpecNorm == InitNorm /\ [][NextNorm]_vars


-----------------------------------------------------------------------------
(* validate_fields.py: main *)

ValCols == {"FIRSTNAME", "LASTNAME", "FULLNAME", "EMAIL", "MOBILE", "HOMEPHONE"}

VRow(f, l, n, e, m, h) ==
    [FIRSTNAME |-> f, LASTNAME |-> l, FULLNAME |-> n, EMAIL |-> e, MOBILE |-> m,
     HOMEPHONE |-> h]

p7  == <<"1","2","3","4","5","6","7">>
p7s == <<"0","4"," ","1","2","-","3","4","5">>
p2  == <<"1","2">>

\* rows output/cleaned_contacts.tsv may hold (an empty cell is read as NaN)
ValRowPool == {
    VRow(tJo, tLi, tJoLi, eAx,  p7,  NA),
    VRow(NA,  NA,  NA,    NA,   NA,  NA),
    VRow(NA,  NA,  NA,    eAx,  NA,  NA),
    VRow(NA,  NA,  tJoLi, NA,   p7s, NA),
    VRow(tJo, tLi, NA,    NA,   p7,  NA),
    VRow(tJo, tLi, tJoLi, eBad, NA,  p7),
    VRow(tJo, NA,  tJo,   eAx,  p2,  NA),
    VRow(tJo, tLi, tJoLi, eAx,  NA,  NA),
    VRow(NA,  tLi, NA,    eBad, p2,  p2) }

\* the column sets output/cleaned_contacts.tsv may have
ValColumnSets == {
    ValCols \ {"FULLNAME"},
    ValCols \ {"FULLNAME", "EMAIL"},
    {"FULLNAME", "EMAIL", "MOBILE"},
    {"FIRSTNAME", "LASTNAME", "EMAIL"},
    {"EMAIL", "MOBILE"} }

\* largest number of rows of output/cleaned_contacts.tsv
NumValRows == 2

\* the paths of the validator
input_path  == "output/cleaned_contacts.tsv"
output_path == "output/validation_errors.json"

\* col_map.get(name): the column of that name, or None (lines 50-57)
v_col(cols, name) == IF name \in cols THEN name ELSE None
v_email_col(cols) == v_col(cols, "EMAIL")
v_first_col(cols) == v_col(cols, "FIRSTNAME")
v_last_col(cols)  == v_col(cols, "LASTNAME")

\* phone_cols (line 58), in the order of the list
v_phone_cols(cols) ==
    SelectSeq(<<"MOBILE", "DIRECTPHONE", "HOMEPHONE">>, LAMBDA c : c \in cols)

\* str(row.get(col, '')).strip() if col else ''
v_val(row, col) == IF col = None THEN <<>> ELSE Strip(AsText(row[col]))

\* pd.isna(row.get(col, ''))
v_isna(row, col) == col # None /\ row[col] = NA

\* x == '' or x.lower() == 'nan'
EmptyOrNan(x) == x = <<>> \/ StrLower(x) = NanText

\* lines 61-116 for one row: whether it is skipped, and its name and errors
ValidateRecord(cols, row) ==
    LET e_col  == v_email_col(cols)
        f_col      == v_first_col(cols)
        l_col      == v_last_col(cols)
        ph_cols == v_phone_cols(cols)
        first_val  == v_val(row, f_col)
        last_val   == v_val(row, l_col)
        full_name  == IF f_col # None /\ l_col # None
                      THEN Strip(first_val \o <<" ">> \o last_val)
                      ELSE IF "FULLNAME" \in cols THEN v_val(row, "FULLNAME")
                      ELSE <<>>
        email_val  == v_val(row, e_col)
        phone_vals == [i \in Indices(ph_cols) |-> v_val(row, ph_cols[i])]
        all_missing ==
            /\ EmptyOrNan(first_val) /\ EmptyOrNan(last_val) /\ EmptyOrNan(email_val)
            /\ \A i \in Indices(phone_vals) : EmptyOrNan(phone_vals[i])
        null_name ==
            \/ full_name = <<>>
            \/ StrLower(full_name) = NanText \o <<" ">> \o NanText
            \/ StrLower(full_name) = NanText
        e1 == IF f_col # None /\ (v_isna(row, f_col) \/ first_val = <<>>)
              THEN <<"Missing FIRSTNAME">> ELSE <<>>
        e2 == IF l_col # None /\ (v_isna(row, l_col) \/ last_val = <<>>)
              THEN <<"Missing LASTNAME">> ELSE <<>>
        e3 == IF e_col # None /\ (v_isna(row, e_col) \/ email_val = <<>>)
              THEN <<"Missing EMAIL">>
              ELSE IF e_col = None THEN <<"Missing EMAIL column">> ELSE <<>>
        e4 == IF /\ e_col # None /\ ~v_isna(row, e_col) /\ email_val # <<>>
                 /\ ~validate_email(row[e_col])
              THEN <<"Invalid email format">> ELSE <<>>
        present(i) == phone_vals[i] # <<>> /\ StrLower(phone_vals[i]) # NanText
        bad == SelectSeq([i \in Indices(ph_cols) |-> i],
                         LAMBDA i : present(i) /\ ~validate_phone(phone_vals[i]))
        e5 == [j \in Indices(bad) |-> "Invalid phone in " \o ph_cols[bad[j]]]
        e6 == IF \E i \in Indices(ph_cols) : present(i) THEN <<>>
              ELSE <<"Missing phone number (MOBILE, DIRECTPHONE, or HOMEPHONE)">>
    IN  [skip   |-> all_missing \/ null_name,
         name   |-> full_name,
         errors |-> e1 \o e2 \o e3 \o e4 \o e5 \o e6]

\* any(critical in err_msg.lower() for critical in
\*     ['missing email column', 'invalid email format']), for the messages above
IsCritical(err_msg) == err_msg \in {"Missing EMAIL column", "Invalid email format"}

\* critical_errors (lines 145-153)
CriticalErrors(errs) ==
    Cardinality(UNION {{<<i, j>> : j \in {m \in Indices(errs[i].errors) :
                                              IsCritical(errs[i].errors[m])}} :
                       i \in Indices(errs)})


\* lines 32-58: the input is checked and read
ValidateLoad ==
    /\ prog = "validate" /\ pc = "load"
    /\ IF ReadFails(input_path)
       THEN /\ exit_code' = "1" /\ pc' = "done" /\ UNCHANGED cur
       ELSE /\ pc' = "rows" /\ cur' = 1 /\ UNCHANGED exit_code
    /\ UNCHANGED <<prog, merged_file, log_file, data_files, merged, change_log, k,
                   missing_indices, orig, writes, cleanVars, raised, unreadable,
                   errors, report_file, callee, args, result, runVars>>

\* lines 60-116: one iteration of the loop over the rows
ValidateRow ==
    /\ prog = "validate" /\ pc = "rows" /\ cur <= Len(df.rows)
    /\ LET r == ValidateRecord(df.columns, df.rows[cur])
       IN  errors' = IF r.skip \/ r.errors = <<>> THEN errors
                     ELSE Append(errors, [row |-> cur, name |-> r.name, errors |-> r.errors])
    /\ cur' = cur + 1
    /\ UNCHANGED <<prog, pc, merged_file, log_file, data_files, merged, change_log, k,
                   missing_indices, orig, writes, cleanVars, raised, unreadable,
                   report_file, exit_code, callee, args, result, runVars>>

\* lines 118-141: the results are printed (line 122 divides by len(df)) and the
\* report is saved
ValidateReport ==
    /\ prog = "validate" /\ pc = "rows" /\ cur > Len(df.rows)
    /\ IF Len(df.rows) = 0
       THEN /\ raised' = "ZeroDivisionError" /\ exit_code' = "1" /\ pc' = "done"
            /\ UNCHANGED report_file
       ELSE /\ report_file' = errors /\ pc' = "classify"
            /\ UNCHANGED <<raised, exit_code>>
    /\ UNCHANGED <<prog, merged_file, log_file, data_files, merged, change_log, k,
                   missing_indices, cur, orig, writes, cleanVars, unreadable,
                   errors, callee, args, result, runVars>>

\* lines 143-162 and 169-177: the result of main() and the exit status
ValidateClassify ==
    /\ prog = "validate" /\ pc = "classify"
    /\ exit_code' = IF CriticalErrors(errors) > 0 THEN "1" ELSE "0"
    /\ pc' = "done"
    /\ UNCHANGED <<prog, merged_file, log_file, data_files, merged, change_log, k,
                   missing_indices, cur, orig, writes, cleanVars, raised, unreadable,
                   errors, report_file, callee, args, result, runVars>>

InitValidate ==
    /\ prog = "validate" /\ pc = "load"
    /\ \E cols \in ValColumnSets : \E n \in 0..NumValRows :
       \E rows \in [1..n -> ValRowPool] : df = Frame(cols, rows)
    /\ unreadable \in {{}, {input_path}}
    /\ errors = <<>> /\ report_file = NoFile /\ exit_code = "none"
    /\ callee = "none" /\ args = <<>> /\ result = <<>>
    /\ raised = "none" /\ cur = 0 /\ NoRun
    /\ merged_rows = <<>> /\ deduped_df = <<>> /\ grouping = <<>>
    /\ merged_file = <<>> /\ log_file = NoFile /\ data_files = <<>> /\ merged = <<>>
    /\ change_log = <<>> /\ k = 0 /\ missing_indices = <<>>
    /\ orig = df.rows /\ writes = <<>>

NextValidate == ValidateLoad \/ ValidateRow \/ ValidateReport \/ ValidateClassify

SpecValidate == InitValidate /\ [][NextValidate]_vars

-----------------------------------------------------------------------------
(* The stages run on inputs of which at most one cannot be read *)

\* the files a run of the filler reads
FillInputs == {merged_path} \cup {data_files[j].fname : j \in 1..Len(data_files)}

InitFillIO ==
    /\ FillStart
    /\ unreadable \in {{}} \cup {{f} : f \in FillInputs}

InitIO == InitFillIO \/ InitValidate

NextIO == NextFill \/ MemReadError \/ LargeReadError \/ NextValidate

SpecIO == InitIO /\ [][NextIO]_vars

-----------------------------------------------------------------------------
(* The fillers on records whose names are nearly the same, and on records
   that two successive files complete *)

tLindgren  == <<"L","i","n","d","g","r","e","n">>
tLindgreen == <<"L","i","n","d","g","r","e","e","n">>

\* rows of a MergedDatabase.tsv: a record without email, one without phone, one
\* with neither first and last name nor phone
NearTargets == {
    TRow(tJo,  tLindgren, <<>>,  <<>>, pLoc),
    TRow(tJo,  tLi,       <<>>,  eA,   <<>>),
    TRow(<<>>, <<>>,      tJoLi, eB,   <<>>) }

\* auxiliary files: n.tsv spells the name of the first record with one more
\* letter, o.tsv spells it the same; r.tsv holds the phone of the third record
\* and o.tsv its first and last name, under that phone and another email
NearFiles == {
    DataFile("n.tsv", AllCols, <<SRow(tJo, tLindgreen, <<>>, eA, pLoc)>>),
    DataFile("o.tsv", AllCols, <<SRow(tJo, tLindgren, <<>>, eB, pLoc),
                                 SRow(tJo, tLi, <<>>, eA, p12)>>),
    DataFile("p.tsv", NoEmPh,  <<SRow(tJo, tLi, <<>>, eA, p34)>>),
    DataFile("q.tsv", AllCols, <<>>),
    DataFile("r.tsv", AllCols, <<SRow(<<>>, <<>>, tJoLi, eB, p12)>>) }

InitNear == FillStartFrom(NearTargets, NearFiles) /\ unreadable = {}

SpecNear == InitNear /\ [][NextFill]_vars

-----------------------------------------------------------------------------
(* run.py: the pipeline runner *)

\* main lines 83-87
steps == <<"fill_missing_contacts.py", "clean_contacts.py", "validate_fields.py">>

\* the program a script runs as, and the position it starts at
ProgOf(script) ==
    CASE script = "fill_missing_contacts.py" -> "mem"
      [] script = "clean_contacts.py"        -> "clean"
      [] script = "validate_fields.py"       -> "validate"

EntryOf(script) == IF script = "clean_contacts.py" THEN "clean" ELSE "load"

\* faulty variant: only an exception of subprocess.run counts as a failure
Succeeded_unless_exception(rc) == rc # "exception"

\* run_script line 56: result.returncode == 0
Succeeded(rc) == rc = "0"

\* main lines 90-94 and run_script lines 26-44: the script of the step is looked
\* up and started; a missing script makes run_script return False (line 30) and
\* main exit with status 1 (lines 96-99)
StartScript ==
    /\ prog = "run" /\ run_pc = "loop" /\ step <= Len(steps)
    /\ IF steps[step] \in missing_scripts
       THEN /\ run_exit' = "1" /\ run_pc' = "end"
            /\ UNCHANGED <<prog, pc, started, returncode>>
       ELSE /\ started' = Append(started, steps[step])
            /\ prog' = ProgOf(steps[step])
            /\ pc' = EntryOf(steps[step])
            /\ returncode' = "none"
            /\ run_pc' = "wait"
            /\ UNCHANGED run_exit
    /\ UNCHANGED <<step, missing_scripts, fillVars, cleanVars, raised, unreadable,
                   errors, report_file, exit_code, callee, args, result>>

\* what subprocess.run can give: the exit status of the script (0, the 1 of
\* sys.exit(1) or of an exception nothing catches, the 2 of an interpreter that
\* cannot open the script, the negative number of a signal) or an exception
Outcomes == {"0", "1", "2", "-9", "exception"}

\* run_script lines 39-44: subprocess.run of one of the given scripts ends
ScriptEnds(scripts) ==
    /\ run_pc = "wait" /\ returncode = "none" /\ pc # "done"
    /\ steps[step] \in scripts
    /\ returncode' \in Outcomes
    /\ pc' = "done"
    /\ UNCHANGED <<prog, run_pc, step, started, run_exit, missing_scripts, fillVars,
                   cleanVars, raised, unreadable, errors, report_file, exit_code,
                   callee, args, result>>

\* clean_contacts.py run as a script: an exception nothing catches ends the
\* interpreter with status 1
CleanExits ==
    /\ run_pc = "wait" /\ returncode = "none"
    /\ prog = "clean" /\ pc = "done"
    /\ returncode' = IF raised # "none" THEN "1" ELSE "0"
    /\ UNCHANGED <<prog, pc, run_pc, step, started, run_exit, missing_scripts,
                   fillVars, cleanVars, raised, unreadable, errors, report_file,
                   exit_code, callee, args, result>>

\* run_script lines 56-72 and main lines 94-104: the outcome of the step decides
\* between the next step and sys.exit(1)
StepEnds ==
    /\ run_pc = "wait" /\ returncode # "none"
    /\ prog' = "run"
    /\ IF Succeeded(returncode)
       THEN /\ step' = step + 1 /\ run_pc' = "loop" /\ UNCHANGED run_exit
       ELSE /\ run_exit' = "1" /\ run_pc' = "end" /\ UNCHANGED step
    /\ UNCHANGED <<pc, started, returncode, missing_scripts, fillVars, cleanVars,
                   raised, unreadable, errors, report_file, exit_code, callee, args,
                   result>>

\* main lines 106-113: every step succeeded
PipelineCompleted ==
    /\ prog = "run" /\ run_pc = "loop" /\ step > Len(steps)
    /\ run_exit' = "0" /\ run_pc' = "end"
    /\ UNCHANGED <<prog, pc, step, started, returncode, missing_scripts, fillVars,
                   cleanVars, raised, unreadable, errors, report_file, exit_code,
                   callee, args, result>>

\* lines 155-160: Ctrl-C while main() runs; KeyboardInterrupt passes the
\* `except Exception` of run_script and ends the runner with status 1;
\* subprocess.run kills a script that is still running before it re-raises
Interrupted ==
    /\ run_pc \in {"loop", "wait"}
    /\ raised' = "KeyboardInterrupt"
    /\ run_exit' = "1" /\ run_pc' = "end"
    /\ prog' = "run" /\ pc' = "done"
    /\ UNCHANGED <<step, started, returncode, missing_scripts, fillVars,
                   cleanVars, unreadable, errors, report_file, exit_code, callee,
                   args, result>>

\* the runner before its first step; the scripts are not running
RunnerStart ==
    /\ prog = "run" /\ pc = "none"
    /\ run_pc = "loop" /\ step = 1 /\ started = <<>> /\ returncode = "none"
    /\ run_exit = "none"
    /\ raised = "none" /\ unreadable = {}
    /\ errors = <<>> /\ report_file = NoFile /\ exit_code = "none"
    /\ callee = "none" /\ args = <<>> /\ result = <<>>
    /\ merged_file = <<>> /\ log_file = NoFile /\ data_files = <<>> /\ merged = <<>>
    /\ change_log = <<>> /\ k = 0 /\ missing_indices = <<>> /\ cur = 0 /\ writes = <<>>
    /\ merged_rows = <<>> /\ grouping = <<>>

\* the runner alone: each script may be missing and may end in any way
InitRun ==
    /\ RunnerStart
    /\ missing_scripts \in SUBSET {steps[n] : n \in 1..Len(steps)}
    /\ df = <<>> /\ orig = <<>> /\ deduped_df = <<>>

NextRun ==
    \/ StartScript
    \/ ScriptEnds({steps[n] : n \in 1..Len(steps)})
    \/ StepEnds
    \/ PipelineCompleted
    \/ Interrupted

SpecRun == InitRun /\ [][NextRun]_vars

\* the runner with clean_contacts.py run as the program it is: every script
\* exists, the clean step reads a frame and runs clean_fields and
\* deduplicate_contacts on it; the other two scripts end in any way
InitPipeline ==
    /\ RunnerStart
    /\ missing_scripts = {}
    /\ \E cols \in ColumnSets : \E rows \in [1..NumRecords -> RecordPool] :
          df = Frame(cols, rows)
    /\ orig = df.rows
    /\ deduped_df = NoValue

NextPipeline ==
    \/ StartScript
    \/ ScriptEnds({"fill_missing_contacts.py", "validate_fields.py"})
    \/ CleanFields \/ Deduplicate \/ CleanExits
    \/ StepEnds
    \/ Interrupted

SpecPipeline == InitPipeline /\ [][NextPipeline]_vars

-----------------------------------------------------------------------------
(* Properties of the normalizers and validity tests *)

DigitChars == {"0","1","2","3","4","5","6","7","8","9"}

\* the digit characters of a value, in order; none for the absent value
DigitsIn(x) == IF x = NA THEN <<>> ELSE SelectSeq(x, LAMBDA c : c \in DigitChars)

\* the last ten digits of a value, or all of them when there are fewer
LastTenDigits(x) ==
    LET d == DigitsIn(x)
    IN  IF Len(d) >= 10 THEN [n \in 1..10 |-> d[Len(d) - 10 + n]] ELSE d

\* C14: normalize_phone returns only digit characters (none for an absent
\* value or one without digits, the last ten when there are at least ten) and
\* returns its own result unchanged; normalize_value returns its own result
\* unchanged.
C14_NormalizersIdempotent ==
    prog = "norm" =>
        /\ callee = "normalize_phone" =>
              /\ \A n \in Indices(result) :
                    \A m \in Indices(result[n]) : result[n][m] \in DigitChars
              /\ result # <<>> => result[1] = LastTenDigits(args[1])
              /\ Len(result) = 2 => result[2] = result[1]
        /\ (callee = "normalize_value" /\ Len(result) = 2) => result[2] = result[1]

\* normalize_phone applied twice to a value with more than ten digits and
\* other characters among them
C14_Witness ==
    /\ prog = "norm" /\ callee = "normalize_phone" /\ Len(result) = 2
    /\ Len(DigitsIn(args[1])) > 10
    /\ Len(args[1]) > Len(DigitsIn(args[1]))
    /\ result[1] # args[1]

\* normalize_value applied twice to a value it changes
NormalizeValueTwice ==
    /\ prog = "norm" /\ callee = "normalize_value" /\ Len(result) = 2
    /\ args[1] # NA /\ result[1] # args[1] /\ result[1] # <<>>


\* a text without the character "@"
LacksAt(x) == x # NA /\ \A n \in Indices(x) : x[n] # "@"

\* clean_fields stores no email for a value without "@"
CleanEmailNeedsAt ==
    (prog = "norm" /\ callee = "clean_fields" /\ result # <<>> /\ LacksAt(args[1]))
        => result[1] = NA

\* C15 (as claimed): an email value without "@" is normalized to the empty
\* value, by clean_fields for storage and by normalize_value for the filler's
\* _email match key.
C15_EmailNeedsAt ==
    (/\ prog = "norm" /\ callee \in {"clean_fields", "normalize_value"}
     /\ result # <<>> /\ LacksAt(args[1]))
        => result[1] \in {<<>>, NA}


\* the normalized value of the field a column argument names, empty without one
FieldOf(row, col) == IF col = None THEN <<>> ELSE normalize_value(row[col])

\* C16 (as claimed): get_full_name returns "first last" only when the first
\* and the last name are both non-empty after normalization; otherwise it
\* returns the normalized full-name field, which is empty when there is none.
C16_FullNameNeedsBoth ==
    (prog = "norm" /\ callee = "get_full_name" /\ result # <<>>) =>
        LET first == FieldOf(args[1], args[2])
            last  == FieldOf(args[1], args[3])
            name  == FieldOf(args[1], args[4])
        IN  result[1] = IF first # <<>> /\ last # <<>>
                        THEN first \o <<" ">> \o last
                        ELSE name


\* a populated phone value: present and not the empty text
Populated(x) == x # NA /\ x # <<>>

\* the number of digits is between 7 and 15
DigitCountValid(x) == Len(DigitsIn(x)) >= 7 /\ Len(DigitsIn(x)) <= 15

\* validate_phone accepts a populated value exactly when it has 7 to 15 digits
ValidatePhoneRange ==
    (prog = "norm" /\ callee = "validate_phone" /\ result # <<>> /\ Populated(args[1]))
        => (result[1] = Bool(TRUE) <=> DigitCountValid(args[1]))

\* C18 (as claimed): every phone validity check of the repository
\* (validate_phone and is_valid_phone) accepts a populated value exactly when
\* it has between 7 and 15 digits.
C18_PhoneDigitRange ==
    (/\ prog = "norm" /\ callee \in {"validate_phone", "is_valid_phone"}
     /\ result # <<>> /\ Populated(args[1]))
        => (result[1] = Bool(TRUE) <=> DigitCountValid(args[1]))

-----------------------------------------------------------------------------
(* Properties of the validator *)

\* the rows the validator's loop has been through
Validated == IF prog = "validate" /\ pc \in {"rows", "classify", "done"}
             THEN {n \in Indices(df.rows) : n < cur} ELSE {}

\* a field that is absent, empty or the text "nan"
Blank(row, c) ==
    \/ c \notin DOMAIN row
    \/ row[c] = NA
    \/ Strip(row[c]) = <<>>
    \/ StrLower(Strip(row[c])) = <<"n","a","n">>

\* first name, last name, email and every phone field are blank
AllBlank(row) ==
    \A c \in {"FIRSTNAME", "LASTNAME", "EMAIL", "MOBILE", "DIRECTPHONE", "HOMEPHONE"} :
        Blank(row, c)

\* row n is reported with the message msg
Reported(n, msg) ==
    \E i \in Indices(errors) :
        /\ errors[i].row = n
        /\ \E j \in Indices(errors[i].errors) : errors[i].errors[j] = msg

\* C17 (as claimed): a record is skipped exactly when first name, last name,
\* email and every phone field are blank; every other record is checked, so one
\* with a blank first or last name is reported with "Missing FIRSTNAME" or
\* "Missing LASTNAME".
C17_SkipOnlyAllBlank ==
    \A n \in Validated :
        /\ AllBlank(df.rows[n]) => \A i \in Indices(errors) : errors[i].row # n
        /\ (~AllBlank(df.rows[n]) /\ "FIRSTNAME" \in df.columns
                /\ Blank(df.rows[n], "FIRSTNAME")) => Reported(n, "Missing FIRSTNAME")
        /\ (~AllBlank(df.rows[n]) /\ "LASTNAME" \in df.columns
                /\ Blank(df.rows[n], "LASTNAME")) => Reported(n, "Missing LASTNAME")


\* the messages of critical errors: a missing email, an invalid email format,
\* a missing email column
CriticalMessages == {"Missing EMAIL", "Invalid email format", "Missing EMAIL column"}

\* some reported error is critical
CriticalReported ==
    \E i \in Indices(errors) : \E j \in Indices(errors[i].errors) :
        errors[i].errors[j] \in CriticalMessages

\* the validation step has ended on an input it could read
ValidationEnded == prog = "validate" /\ pc = "done" /\ input_path \notin unreadable

\* C19 (as claimed): the validation step reports failure exactly when at least
\* one reported error is critical, and success otherwise.
C19_FailsOnCritical ==
    ValidationEnded =>
        /\ exit_code \in {"0", "1"}
        /\ exit_code = "1" <=> CriticalReported

\* a run that reports a missing email and ends in success
MissingEmailPasses ==
    /\ ValidationEnded /\ exit_code = "0"
    /\ \E n \in Indices(df.rows) : Reported(n, "Missing EMAIL")

\* a run over an input without rows that ends in failure
NoRowsFails ==
    ValidationEnded /\ df.rows = <<>> /\ errors = <<>> /\ exit_code = "1"

-----------------------------------------------------------------------------
(* Properties of the stages on unreadable input *)

\* the run of the filler has an input that cannot be read
FillInputUnreadable == Filling /\ unreadable # {}

\* the run of the validator has an input that cannot be read
ValidateInputUnreadable == prog = "validate" /\ input_path \in unreadable

\* C20: when an input of a stage cannot be read, the stage writes none of its
\* outputs and ends in failure: the filler leaves the merged dataset file and
\* the change log as they were before the run, also after earlier auxiliary
\* files were processed, and ends with an exception; the validator writes no
\* report and ends with exit code 1
C20_NoOutputOnUnreadableInput ==
    /\ FillInputUnreadable =>
          /\ merged_file = orig
          /\ log_file = NoFile
          /\ pc = "done" => raised # "none"
    /\ ValidateInputUnreadable =>
          /\ report_file = NoFile
          /\ pc = "done" => exit_code = "1"

\* the second auxiliary file cannot be read: the run ended in failure after
\* the first file had filled cells of the dataset in memory
C20_Witness ==
    /\ FillInputUnreadable
    /\ pc = "done" /\ raised # "none"
    /\ k = 2 /\ writes # <<>>
    /\ merged_file = orig /\ log_file = NoFile

\* the validator ended on an unreadable input without a report
C20_ValidatorWitness ==
    /\ ValidateInputUnreadable
    /\ pc = "done" /\ exit_code = "1" /\ report_file = NoFile

-----------------------------------------------------------------------------
(* Properties of the pipeline runner *)

RunEnded == run_pc = "end"

\* the step that was started last has failed
LastStepFailed == returncode \notin {"none", "0"}

\* C21: the runner starts its steps in the order fill, clean, validate; it starts
\* a step only when no step was started before or the step started before has
\* ended with status 0 and the run has not ended; once a step has failed
\* (nonzero status, exception, or missing script) no further step is started
\* and the run ends with status 1; a run that ends with status 0 has started
\* all three steps, and one that ends before that was stopped by a failed
\* step, a missing script or an interrupt
C21_StepsInOrderStopOnFailure ==
    /\ [](/\ Len(started) <= 3
          /\ \A n \in 1..Len(started) :
                started[n] = <<"fill_missing_contacts.py", "clean_contacts.py",
                               "validate_fields.py">>[n]
          /\ (RunEnded /\ LastStepFailed) => run_exit = "1"
          /\ (RunEnded /\ Len(started) < 3 /\ ~LastStepFailed) =>
                 /\ run_exit = "1"
                 /\ \/ raised = "KeyboardInterrupt"
                    \/ <<"fill_missing_contacts.py", "clean_contacts.py",
                         "validate_fields.py">>[Len(started) + 1] \in missing_scripts
          /\ run_exit = "0" => (Len(started) = 3 /\ returncode = "0"))
    /\ [][started' # started =>
             /\ Len(started') = Len(started) + 1
             /\ started = <<>> \/ returncode = "0"
             /\ run_exit = "none"]_vars
    /\ [][RunEnded => (started' = started /\ run_exit' = run_exit)]_vars

\* the second step failed after the first had succeeded: the third was never
\* started and the run ended with status 1
C21_Witness ==
    /\ RunEnded /\ run_exit = "1" /\ raised = "none"
    /\ started = <<"fill_missing_contacts.py", "clean_contacts.py">>
    /\ returncode = "1"

\* all three steps were started and the run ended with status 0
AllStepsRun == RunEnded /\ run_exit = "0" /\ Len(started) = 3

-----------------------------------------------------------------------------
(* Properties of the large filler's row numbers *)

LargeLoaded == prog = "large" /\ pc \in {"files", "pass", "done"}

\* C22 (as claimed): in the large filler every change-log entry corresponds to
\* one cell assignment, its row is the 1-based position in the target file of
\* the record that was assigned, and that record holds the new value, for
\* records of the first chunk and of later chunks alike
C22_LargeRowIsPosition ==
    LargeLoaded =>
        /\ Len(change_log) = Len(writes)
        /\ \A q \in 1..Len(change_log) :
              /\ change_log[q].row = writes[q].pos
              /\ change_log[q].field = writes[q].field
              /\ merged[writes[q].pos][writes[q].field] = change_log[q].new_value

\* for the records of the first chunk the logged row is the position
FirstChunkRowIsPosition ==
    LargeLoaded =>
        /\ Len(change_log) = Len(writes)
        /\ \A q \in 1..Len(change_log) :
              /\ change_log[q].field = writes[q].field
              /\ merged[writes[q].pos][writes[q].field] = change_log[q].new_value
              /\ writes[q].pos <= chunk_size => change_log[q].row = writes[q].pos

\* a record past the first chunk was filled and logged under another row
LaterChunkLogged ==
    /\ LargeLoaded
    /\ \E q \in 1..Len(change_log) :
          writes[q].pos > chunk_size /\ change_log[q].row # writes[q].pos

-----------------------------------------------------------------------------
(* Properties of the name comparison *)

RECURSIVE LcsLen(_, _)
\* length of the longest common subsequence of two texts
LcsLen(a, b) ==
    IF a = <<>> \/ b = <<>> THEN 0
    ELSE IF Head(a) = Head(b) THEN 1 + LcsLen(Tail(a), Tail(b))
    ELSE LET x == LcsLen(Tail(a), b)
             y == LcsLen(a, Tail(b))
         IN  IF x >= y THEN x ELSE y

\* normalized similarity of two texts on the scale 0..100
Similarity(a, b) ==
    IF Len(a) + Len(b) = 0 THEN 100 ELSE (200 * LcsLen(a, b)) \div (Len(a) + Len(b))

\* the names are not identical and at least 90 similar
NearlySameName(a, b) == a # <<>> /\ b # <<>> /\ a # b /\ Similarity(a, b) >= 90

\* C23 (as claimed): when the run has ended, every target record for which a
\* processed auxiliary record has a name at least 90 similar but not identical
\* and an equal non-empty phone or email has its empty fields filled wherever
\* that auxiliary record holds a value
C23_FuzzyNameAgrees ==
    (Filling /\ pc = "done") =>
        \A j \in Indices(data_files) :
            ~LacksIdentifyingColumns(data_files[j]) =>
                \A c \in Indices(data_files[j].rows) : \A n \in Indices(orig) :
                    LET s == NormalizeSource(data_files[j])[c]
                        t == merged[n]
                    IN  (/\ NearlySameName(t["_name"], s["_name"])
                         /\ \/ Agree(t["_phone"], s["_phone"])
                            \/ Agree(t["_email"], s["_email"]))
                        => \A q \in Indices(FieldPairs(data_files[j])) :
                              (/\ orig[n][FieldPairs(data_files[j])[q][1]] = <<>>
                               /\ s[FieldPairs(data_files[j])[q][2]] # <<>>)
                              => merged_file[n][FieldPairs(data_files[j])[q][1]] # <<>>

\* with the name spelled the same, the record of o.tsv fills the email
SameNameFills ==
    /\ prog = "mem" /\ pc = "done"
    /\ \E n \in Indices(orig) :
          /\ orig[n][first_col] = tJo /\ orig[n][last_col] = tLindgren
          /\ orig[n][email_col] = <<>> /\ merged_file[n][email_col] = eB

-----------------------------------------------------------------------------
(* Properties of the value-selection policy *)

\* C24 (as claimed): a run under the first-match policy gives every column of
\* every group the first non-empty value of the group in sort order, also
\* when a later record of the group holds a longer value
C24_FirstMatchValue ==
    (Deduped /\ grouping # <<>>) =>
        \A g \in Indices(grouping.groups) : \A c \in df.columns :
            GroupValues(g, c) # <<>> => merged_rows[g][c] = GroupValues(g, c)[1]

\* a group whose first non-empty value of a column is shorter than a later one
LongerValueLater ==
    /\ Deduped /\ grouping # <<>>
    /\ \E g \in Indices(grouping.groups) : \E c \in df.columns :
          /\ Len(GroupValues(g, c)) > 1
          /\ \E b \in 2..Len(GroupValues(g, c)) :
                Len(GroupValues(g, c)[b]) > Len(GroupValues(g, c)[1])
          /\ merged_rows[g][c] # GroupValues(g, c)[1]

-----------------------------------------------------------------------------
(* Properties of the match keys across passes *)

\* a pass is about to start or the last one has ended
BetweenPasses == Filling /\ pc = "files"

\* the keys a target row would get from the values it holds now
KeysNow(row) ==
    [_name  |-> get_full_name(row, first_col, last_col, name_col),
     _phone |-> normalize_phone(row[phone_col]),
     _email |-> normalize_value(row[email_col])]

\* C25 (as claimed): when a fill pass starts, the name, email and phone key of
\* every target record are the normalized forms of the values the record holds
\* at that moment, values filled by earlier passes included
C25_KeysFollowValues ==
    BetweenPasses =>
        \A n \in Indices(merged) : \A c \in KeyCols : merged[n][c] = KeysNow(merged[n])[c]

\* the number of keys on which the values a target holds now agree with an
\* auxiliary record
AgreeCountNow(target, source_row) ==
    Cardinality({c \in KeyCols : Agree(KeysNow(target)[c], source_row[c])})

\* the second file holds a record that agrees on two keys with the values a
\* target holds after the first pass, one of them filled by that pass, and has a
\* value for a field of the target; the field is empty in the file written
FilledValueNotCounted ==
    /\ Filling /\ pc = "done" /\ Len(data_files) >= 2
    /\ ~LacksIdentifyingColumns(data_files[2])
    /\ \E n \in Indices(merged) : \E c \in Indices(data_files[2].rows) :
          LET s == NormalizeSource(data_files[2])[c] IN
          /\ AgreeCountNow(merged[n], s) >= 2
          /\ AgreeCount(merged[n], s) < 2
          /\ \E q \in Indices(writes) : writes[q].pos = n /\ writes[q].pass = 1
          /\ \E q \in Indices(FieldPairs(data_files[2])) :
                /\ s[FieldPairs(data_files[2])[q][2]] # <<>>
                /\ merged_file[n][FieldPairs(data_files[2])[q][1]] = <<>>

-----------------------------------------------------------------------------
(* Properties of deduplicate_contacts on a dataset without an optional column *)

\* the dataset lacks the EMAIL column, or has only one of FULLNAME and MOBILE
LacksOptionalColumn(cols) ==
    \/ "EMAIL" \notin cols
    \/ ("FULLNAME" \in cols /\ "MOBILE" \notin cols)
    \/ ("FULLNAME" \notin cols /\ "MOBILE" \in cols)

\* C26 (as claimed): on a dataset that lacks the EMAIL column or has only one
\* of FULLNAME and MOBILE, deduplicate_contacts forms its groups with the
\* missing column taken as empty and builds one record per key; it does not
\* stop with an exception before
C26_MissingColumnAbsorbed ==
    (Deduped /\ LacksOptionalColumn(df.columns)) =>
        /\ grouping # <<>>
        /\ Len(merged_rows) =
              Cardinality({MergeKey(df.rows[n]) : n \in Indices(df.rows)})

\* with EMAIL, FULLNAME and MOBILE present the groups are formed, one per key
AllColumnsGrouped ==
    (Deduped /\ {"EMAIL", "FULLNAME", "MOBILE"} \subseteq df.columns) =>
        /\ grouping # <<>>
        /\ Len(merged_rows) =
              Cardinality({DedupKey(df.columns, df.rows[n]) : n \in Indices(df.rows)})

\* the dataset has no EMAIL column and the key step raised
NoEmailColumnRaises ==
    Deduped /\ "EMAIL" \notin df.columns /\ raised = "NameError" /\ grouping = <<>>

\* the dataset has FULLNAME without MOBILE and the key step raised
NoMobileColumnRaises ==
    /\ Deduped /\ "FULLNAME" \in df.columns /\ "MOBILE" \notin df.columns
    /\ raised = "KeyError" /\ grouping = <<>>

-----------------------------------------------------------------------------
(* Properties of the large filler against the in-memory filler *)

\* fill_from_source for one target row: the states it can leave, one per
\* iteration order of the candidate set
MemRowOutcomes(st, idx, file, j) ==
    LET source_df == NormalizeSource(file)
        info == [fname |-> file.fname, pass |-> j, pairs |-> FieldPairs(file)]
    IN  {[TryCandidates(st, idx, st.merged[idx + 1], source_df, order, info)
             EXCEPT !.changed = FALSE] :
            order \in Orderings(Candidates(st.merged[idx + 1], source_df))}

RECURSIVE MemRowsOutcomes(_, _, _, _)
MemRowsOutcomes(sts, mi, file, j) ==
    IF mi = <<>> THEN sts
    ELSE MemRowsOutcomes(UNION {MemRowOutcomes(st, Head(mi), file, j) : st \in sts},
                         Tail(mi), file, j)

\* one pass of the in-memory filler over one auxiliary file
MemPassOutcomes(st, file, j) ==
    IF MissingRequiredColumns(file) THEN {st}
    ELSE MemRowsOutcomes({st}, MissingIndices(st.merged, FieldPairs(file)), file, j)

RECURSIVE MemFilesOutcomes(_, _, _)
MemFilesOutcomes(sts, files, j) ==
    IF j > Len(files) THEN sts
    ELSE MemFilesOutcomes(UNION {MemPassOutcomes(st, files[j], j) : st \in sts},
                          files, j + 1)

\* the file and the change log the in-memory filler can write for a target
\* file and a list of auxiliary files
MemOutcomes(rows, files) ==
    {[file |-> DropKeys(st.merged), log |-> st.change_log] :
        st \in MemFilesOutcomes({[merged |-> NormalizeMerged(rows), change_log |-> <<>>,
                                  writes |-> <<>>, changed |-> FALSE]}, files, 1)}

\* the runs of the in-memory filler end in one of these outcomes
MemEndsInOutcome ==
    (prog = "mem" /\ pc = "done") =>
        [file |-> merged_file, log |-> log_file] \in MemOutcomes(orig, data_files)

Entries(log) == {log[q] : q \in 1..Len(log)}

LargeEnded == prog = "large" /\ pc = "done"

\* C27 (as claimed): the large filler ends with the target file and the set of
\* change-log entries that the in-memory filler can end with on the same target
\* file and the same auxiliary files in the same order, and in one pass all
\* cells filled in one target record come from one auxiliary record
C27_LargeSameAsMemory ==
    LargeEnded =>
        /\ \E o \in MemOutcomes(orig, data_files) :
              merged_file = o.file /\ Entries(log_file) = Entries(o.log)
        /\ \A a, b \in Indices(writes) :
              (writes[a].pass = writes[b].pass /\ writes[a].pos = writes[b].pos)
                  => writes[a].cand = writes[b].cand

\* the large filler wrote a target file the in-memory filler cannot write
LargeFileDiffers ==
    LargeEnded /\ \A o \in MemOutcomes(orig, data_files) : merged_file # o.file

\* the large filler filled one target record from two auxiliary records in one pass
LargeTwoSources ==
    /\ LargeEnded
    /\ \E a, b \in Indices(writes) :
          /\ writes[a].pass = writes[b].pass /\ writes[a].pos = writes[b].pos
          /\ writes[a].cand # writes[b].cand

-----------------------------------------------------------------------------
(* Properties of a pipeline run *)

\* the input of the clean step has every column the step works on
WellFormedInput == df # <<>> /\ df.columns = CleanCols

\* the fill step ended with status 0 and the run was not interrupted
FillSucceeded == Len(started) >= 2 /\ raised # "KeyboardInterrupt"

\* C28 (as claimed): a run whose fill step succeeded and whose input is
\* well-formed does not end before the clean step has returned a dataset and
\* exited with status 0 and the validate step has been started
C28_CleanCompletesThenValidate ==
    (RunEnded /\ FillSucceeded /\ WellFormedInput) =>
        /\ deduped_df # NoValue
        /\ started = <<"fill_missing_contacts.py", "clean_contacts.py",
                       "validate_fields.py">>

\* the clean step always ends with status 1 and the validate step never starts
CleanStepFails ==
    /\ Len(started) <= 2
    /\ (Len(started) = 2 /\ returncode # "none") => returncode = "1"
    /\ run_exit # "0"
    /\ deduped_df = NoValue

\* the run ended with status 1 at the clean step, on a well-formed input
RunStopsAtClean ==
    /\ RunEnded /\ FillSucceeded /\ WellFormedInput
    /\ Len(started) = 2 /\ returncode = "1" /\ raised = "KeyError" /\ run_exit = "1"

-----------------------------------------------------------------------------
(* merge_contacts_kindaworks.py: missing emails and mobiles from mailchimp *)

\* lines 22-25
normalize(val) == IF val = NA THEN <<>> ELSE StrLower(Strip(val))

\* fillna('') of a cell of a column
FillNaCell(row, c) == IF row[c] = NA THEN <<>> ELSE row[c]

\* lines 27-38, for one row of a frame with the (lowercased) columns cols
get_name(cols, row) ==
    IF {"firstname", "lastname"} \subseteq cols
    THEN Strip(FillNaCell(row, "firstname") \o <<" ">> \o FillNaCell(row, "lastname"))
    ELSE IF {"first name", "last name"} \subseteq cols
    THEN Strip(FillNaCell(row, "first name") \o <<" ">> \o FillNaCell(row, "last name"))
    ELSE IF "fullname" \in cols THEN Strip(FillNaCell(row, "fullname"))
    ELSE IF "name" \in cols THEN Strip(FillNaCell(row, "name"))
    ELSE <<>>

\* lines 40-46
get_mobile(cols, row) ==
    IF "mobile" \in cols THEN row["mobile"]
    ELSE IF "number" \in cols THEN row["number"]
    ELSE <<>>

\* lines 48-54
get_email(cols, row) ==
    IF "email address" \in cols THEN row["email address"]
    ELSE IF "email" \in cols THEN row["email"]
    ELSE <<>>

\* lines 59-74: the columns name, mobile, email and their normalized forms
WithKeys(cols, rows) ==
    [n \in Indices(rows) |->
        LET name   == get_name(cols, rows[n])
            mobile == get_mobile(cols, rows[n])
            email  == get_email(cols, rows[n])
        IN  [name |-> name, mobile |-> mobile, email |-> email,
             name_norm |-> normalize(name), mobile_norm |-> normalize(mobile),
             email_norm |-> normalize(email)]]

\* (not v) or pd.isna(v) or str(v).strip() == "" (lines 85 and 92)
Missing(v) == v = <<>> \/ v = NA \/ Strip(v) = <<>>

\* the rows of mailchimp_df with the given name and second key, in file order
\* (lines 86 and 93)
Matching(rows, name, key_col, key) ==
    SelectSeq([n \in Indices(rows) |-> n],
              LAMBDA n : rows[n]["name_norm"] = name /\ rows[n][key_col] = key)

\* lines 87 and 94: the first matching row holds a value
Usable(rows, match, c) ==
    match # <<>> /\ rows[match[1]][c] # NA /\ rows[match[1]][c] # <<>>

MergedColumns    == {"firstname", "lastname", "mobile", "email"}
MailchimpColumns == {"first name", "last name", "mobile", "email address"}

MRow(f, l, m, e) == [firstname |-> f, lastname |-> l, mobile |-> m, email |-> e]
CRow2(f, l, m, e) ==
    ("first name" :> f) @@ ("last name" :> l) @@ ("mobile" :> m) @@ ("email address" :> e)

\* rows of MergedDatabase.tsv: name only, name and mobile, name and email, no name
MergedPool == {
    MRow(tJo, tLi, NA,  NA),
    MRow(tJo, tLi, p12, NA),
    MRow(tJo, tLi, NA,  eA),
    MRow(NA,  NA,  p12, NA) }

\* rows of mailchimpclean.tsv
MailchimpPool == {
    CRow2(tjo, tLi, NA,  eB),
    CRow2(tJo, tLi, p12, eA),
    CRow2(tJo, tLi, p34, eAup),
    CRow2(tAl, tNg, p12, eB) }

\* number of rows of mailchimpclean.tsv
NumMailchimp == 2

\* lines 18-19 and 56-74
MailchimpLoad ==
    /\ prog = "mailchimp" /\ pc = "load"
    /\ merged' = WithKeys(MergedColumns, merged_file)
    /\ df' = WithKeys(MailchimpColumns, data_files[1].rows)
    /\ cur' = 1
    /\ pc' = "rows"
    /\ UNCHANGED <<prog, merged_file, log_file, data_files, change_log, k,
                   missing_indices, orig, writes, merged_rows, deduped_df, grouping,
                   auxVars, raised>>

\* lines 77-96: one iteration of the loop over merged_df
MailchimpRow ==
    /\ prog = "mailchimp" /\ pc = "rows" /\ cur <= Len(merged)
    /\ LET row     == merged[cur]
           by_mob  == Matching(df, row.name_norm, "mobile_norm", row.mobile_norm)
           by_mail == Matching(df, row.name_norm, "email_norm", row.email_norm)
           fill_e  == row.name_norm # <<>> /\ Missing(row.email)
                      /\ Usable(df, by_mob, "email")
           fill_m  == row.name_norm # <<>> /\ Missing(row.mobile)
                      /\ Usable(df, by_mail, "mobile")
           new_e   == IF fill_e THEN df[by_mob[1]].email ELSE row.email
           new_m   == IF fill_m THEN df[by_mail[1]].mobile ELSE row.mobile
       IN  /\ merged' = [merged EXCEPT ![cur] = [row EXCEPT !.email = new_e,
                                                            !.mobile = new_m]]
           /\ writes' = writes
                 \o (IF fill_e THEN <<[pos |-> cur, field |-> "email", value |-> new_e,
                                      cand |-> by_mob[1]]>> ELSE <<>>)
                 \o (IF fill_m THEN <<[pos |-> cur, field |-> "mobile", value |-> new_m,
                                      cand |-> by_mail[1]]>> ELSE <<>>)
    /\ cur' = cur + 1
    /\ UNCHANGED <<prog, pc, merged_file, log_file, data_files, change_log, k,
                   missing_indices, orig, cleanVars, auxVars, raised>>

\* lines 98-102: the normalized columns are dropped and the file is written
MailchimpSave ==
    /\ prog = "mailchimp" /\ pc = "rows" /\ cur > Len(merged)
    /\ merged_file' = [n \in Indices(merged) |->
                          [c \in {"name", "mobile", "email"} |-> merged[n][c]]
                              @@ merged_file[n]]
    /\ pc' = "done"
    /\ UNCHANGED <<prog, log_file, data_files, merged, change_log, k, missing_indices,
                   cur, orig, writes, cleanVars, auxVars, raised>>

InitMailchimp ==
    /\ prog = "mailchimp" /\ pc = "load"
    /\ merged_file \in [1..NumTargets -> MergedPool]
    /\ \E rows \in [1..NumMailchimp -> MailchimpPool] :
          data_files = <<[fname |-> "mailchimpclean.tsv", columns |-> MailchimpColumns,
                          rows |-> rows]>>
    /\ orig = merged_file
    /\ merged = <<>> /\ df = <<>> /\ cur = 0 /\ writes = <<>>
    /\ log_file = NoFile /\ change_log = <<>> /\ k = 0 /\ missing_indices = <<>>
    /\ merged_rows = <<>> /\ deduped_df = <<>> /\ grouping = <<>>
    /\ raised = "none" /\ unreadable = {}
    /\ NoAux

NextMailchimp == MailchimpLoad \/ MailchimpRow \/ MailchimpSave

SpecMailchimp == InitMailchimp /\ [][NextMailchimp]_vars

-----------------------------------------------------------------------------
(* Properties of the mailchimp merge *)

\* both keys are non-empty and equal
SameKey(a, b) == a # <<>> /\ b # <<>> /\ a = b

\* C29 (as claimed): an email is filled only from a mailchimp row whose
\* normalized name and normalized mobile are both non-empty and equal to the
\* record's, and a mobile only from a row whose normalized name and normalized
\* email are both non-empty and equal to the record's
C29_FillNeedsTwoKeys ==
    (prog = "mailchimp" /\ pc \in {"rows", "done"}) =>
        \A q \in Indices(writes) :
            LET t == WithKeys(MergedColumns, orig)[writes[q].pos]
                c == df[writes[q].cand]
            IN  /\ SameKey(t.name_norm, c.name_norm)
                /\ writes[q].field = "email" => SameKey(t.mobile_norm, c.mobile_norm)
                /\ writes[q].field = "mobile" => SameKey(t.email_norm, c.email_norm)

\* every fill comes from a row with the record's non-empty name and with the
\* record's second key, empty or not
FillNeedsName ==
    (prog = "mailchimp" /\ pc \in {"rows", "done"}) =>
        \A q \in Indices(writes) :
            LET t == WithKeys(MergedColumns, orig)[writes[q].pos]
                c == df[writes[q].cand]
            IN  /\ SameKey(t.name_norm, c.name_norm)
                /\ writes[q].field = "email" => t.mobile_norm = c.mobile_norm
                /\ writes[q].field = "mobile" => t.email_norm = c.email_norm

\* a record with a name and neither email nor mobile got the email of a
\* mailchimp row that has the same name and no mobile
FilledOnNameAlone ==
    /\ prog = "mailchimp" /\ pc = "done"
    /\ \E n \in Indices(orig) :
          /\ orig[n].email = NA /\ orig[n].mobile = NA
          /\ merged_file[n].email # NA
          /\ \E q \in Indices(writes) :
                writes[q].pos = n /\ df[writes[q].cand].mobile_norm = <<>>

====
